---------------------------- MODULE Spec2Model ----------------------------
(***************************************************************************)
(* A model of the volleyball heatmap application (src/heatmap.js): the     *)
(* session ledger (SessionState: points, undoStack, redoStack), the        *)
(* session life cycle of the controller (HeatmapApp: start new, load,      *)
(* save) and the canvas input that feeds the ledger.                       *)
(*                                                                         *)
(* JavaScript values are written as follows.  A point is a record whose    *)
(* DOMAIN is the set of the object's own properties (hasOwnProperty is     *)
(* membership in DOMAIN); x and y are integers (pixels); rotation          *)
(* and team are strings, "null" standing for null and "1" .. "6" for the   *)
(* numbers 1 .. 6.  A session name and a jersey number are sequences of    *)
(* characters; a null jersey number is <<"null">>, which no sequence of    *)
(* characters equals.  An action is {action:'add', point} or               *)
(* {action:'clear', points}.                                               *)
(*                                                                         *)
(* index.html and styles.css, which decide what the operator can reach on  *)
(* screen at a given moment, are not part of the source: the model offers  *)
(* every event in every state and lets each handler's own guards decide.   *)
(***************************************************************************)
EXTENDS Integers, Sequences, FiniteSets, TLC

(***************************************************************************)
(* Bounds of the model.                                                    *)
(***************************************************************************)
\* Largest undo/redo bound M the configuration is drawn from (0 .. MaxM).
MaxM == 2
\* addPoint is offered while points is shorter than this.
MaxPoints == 3
\* A push onto undoStack is offered while the stack is shorter than this
\* (it is what stops an untrimmed stack from growing for ever).
MaxStack == 3
\* Number of file reads that may be in flight at once.
MaxPending == 1

(***************************************************************************)
(* CONFIG (src/heatmap.js 28-91).                                          *)
(***************************************************************************)
gridSize == 15
canvasSize == 600
\* CONFIG.validation.maxPointCount, scaled down from 10000 to the size of
\* the documents of the model.
maxPointCount == 2
validModes == {"simpleHeatmap", "heatmapCharting"}

VARIABLES
    \* CONFIG.validation.maxUndoStackSize / autoTrimUndoStack: frozen at start
    maxUndoStackSize, autoTrimUndoStack,
    \* SessionState
    name, mode, points, undoStack, redoStack, isViewOnly,
    \* HeatmapApp
    geometryMode, isDrawing, lineStart, currentJerseyNumber,
    activeJerseyNumberFilters, activeRotationFilters,
    trackRotation, trackTeam, currentRotation, currentTeam,
    hasUnsavedChanges,
    \* what showModal displays: "sessionModal" or the main container ("app")
    screen,
    \* file reads in flight: the view-only choice each loadSession captured
    pendingLoads,
    \* SessionState.migrationInfo: <<>> for null, else the report
    migrationInfo,
    \* HeatmapApp's combine state: combineMode ("null" or a mode), combinedData
    \* (<<>> for null, else <<data>>), combineFileList, and the calls of
    \* handleCombineFiles that are waiting for a file read
    combineMode, combinedData, combineFileList, combining,
    \* the session file at hand for loadSession (<<>> if none, else
    \* <<document>>): what saveSession last wrote, or a file from elsewhere
    disk,
    \* history (not program state): the last operation, how the ledger in use
    \* came about, and the run of ledger operations since the session began
    lastOp, origin, run,
    \* history: an entry has been evicted from undoStack or redoStack since the
    \* ledger in use was started or loaded
    everEvicted,
    \* history, kept only by the specifications that start with it set: what
    \* the last start, save or load left (<<>> if not kept)
    since

configVars == <<maxUndoStackSize, autoTrimUndoStack>>
sessionVars == <<name, mode, points, undoStack, redoStack, isViewOnly>>
drawVars == <<isDrawing, lineStart, currentJerseyNumber, trackRotation,
              trackTeam, currentRotation, currentTeam>>
filterVars == <<activeJerseyNumberFilters, activeRotationFilters>>
appVars == <<geometryMode, hasUnsavedChanges, screen, pendingLoads>>
combineVars == <<combineMode, combinedData, combineFileList, combining>>
histVars == <<lastOp, origin, run, everEvicted>>
\* What the handlers of the live session leave alone.
restVars == <<migrationInfo, combineVars, disk, since>>
vars == <<configVars, sessionVars, drawVars, filterVars, appVars, restVars,
          histVars>>

(***************************************************************************)
(* Sequence helpers.                                                       *)
(***************************************************************************)
\* Array.prototype.slice(-n): the last n elements (all of them if fewer).
SliceLast(s, n) ==
    IF Len(s) <= n THEN s ELSE SubSeq(s, Len(s) - n + 1, Len(s))

\* Array.prototype.pop(): the array without its last element (unchanged if empty).
Pop(s) == IF Len(s) = 0 THEN s ELSE SubSeq(s, 1, Len(s) - 1)

Last(s) == s[Len(s)]

IsPrefix(s, t) == Len(s) <= Len(t) /\ SubSeq(t, 1, Len(s)) = s

IsSuffix(s, t) == Len(s) <= Len(t) /\ SubSeq(t, Len(t) - Len(s) + 1, Len(t)) = s

(***************************************************************************)
(* GridGeometry (src/heatmap.js 287-409).                                  *)
(***************************************************************************)
scale == canvasSize \div gridSize

canvasWidth == canvasSize

canvasHeight(m) == IF m = "heatmapCharting" THEN 22 * scale ELSE canvasSize

isWithinBounds(m, x, y) ==
    x >= 0 /\ x <= canvasWidth /\ y >= 0 /\ y <= canvasHeight(m)

Max(a, b) == IF a >= b THEN a ELSE b
Min(a, b) == IF a <= b THEN a ELSE b

\* sanitizeCoordinate for a numeric, finite value: clamp to [0, max].
sanitizeCoordinate(value, max) == Max(0, Min(max, value))

(***************************************************************************)
(* sanitizeSessionName (src/heatmap.js 213-234) on a sequence of           *)
(* characters: trim, drop control and path-hostile characters, cut to 50.  *)
(***************************************************************************)
nameMaxLength == 50
Whitespace == {" "}
ControlChars == {"\t"}
PathHostileChars == {"<", ">", ":", "/", "|", "?", "*"}

RECURSIVE TrimLeft(_)
TrimLeft(s) ==
    IF s # <<>> /\ (s[1] \in Whitespace \/ s[1] = "\t") THEN TrimLeft(Tail(s)) ELSE s

RECURSIVE TrimRight(_)
TrimRight(s) ==
    IF s # <<>> /\ (Last(s) \in Whitespace \/ Last(s) = "\t") THEN TrimRight(Pop(s)) ELSE s

Without(s, chars) == SelectSeq(s, LAMBDA c : c \notin chars)

sanitizeSessionName(raw) ==
    LET trimmed == TrimRight(TrimLeft(raw))
        clean == Without(Without(trimmed, ControlChars), PathHostileChars)
    IN  IF raw = <<>> THEN <<>>
        ELSE IF Len(clean) > nameMaxLength THEN SubSeq(clean, 1, nameMaxLength)
        ELSE clean

(***************************************************************************)
(* SessionState (src/heatmap.js 482-746).  The ledger operations are       *)
(* operators on a record s = [points, undoStack, redoStack]; each action   *)
(* below applies the operator to the live ledger.                          *)
(***************************************************************************)
Ledger == [points |-> points, undoStack |-> undoStack, redoStack |-> redoStack]

AddAction(p) == [action |-> "add", point |-> p]
ClearAction(ps) == [action |-> "clear", points |-> ps]

TrimOn == autoTrimUndoStack /\ maxUndoStackSize > 0

\* Variant: the slice keeps the oldest entries, slice(0, maxSize).
trimUndoStackKeepsOldest(s) ==
    IF autoTrimUndoStack /\ maxUndoStackSize > 0
       /\ Len(s.undoStack) > maxUndoStackSize
    THEN [s EXCEPT !.undoStack = SubSeq(s.undoStack, 1, maxUndoStackSize)]
    ELSE s

\* Variant: the undo stack is never trimmed.
trimUndoStackNeverTrims(s) == s

trimUndoStack(s) ==
    IF autoTrimUndoStack /\ maxUndoStackSize > 0
       /\ Len(s.undoStack) > maxUndoStackSize
    THEN [s EXCEPT !.undoStack = SliceLast(s.undoStack, maxUndoStackSize)]
    ELSE s

trimRedoStack(s) ==
    IF autoTrimUndoStack /\ maxUndoStackSize > 0
       /\ Len(s.redoStack) > maxUndoStackSize
    THEN [s EXCEPT !.redoStack = SliceLast(s.redoStack, maxUndoStackSize)]
    ELSE s

\* Variant: addPoint without line 530 (the redo stack survives an add).
addPointKeepsRedo(s, p) ==
    LET pushed == [s EXCEPT !.points = Append(@, p),
                            !.undoStack = Append(@, AddAction(p))]
    IN  trimUndoStack(pushed)

addPoint(s, p) ==
    LET pushed == [s EXCEPT !.points = Append(@, p),
                            !.undoStack = Append(@, AddAction(p))]
    IN  [trimUndoStack(pushed) EXCEPT !.redoStack = <<>>]

\* The conditions addPoint hands to assert (lines 525-527): point is an
\* object, typeof point.x and point.y are 'number', typeof point.rotation is
\* 'number'.  A rotation is a token "1".."6" for a number and "null" for
\* null, whose typeof is 'object'.
addPointAssertions(point) ==
    /\ DOMAIN point # {}
    /\ point.x \in Int /\ point.y \in Int
    /\ point.rotation # "null"

\* Variant: the snapshot is taken after points was emptied.
clearAllPointsSnapshotsLate(s) ==
    LET pushed == [s EXCEPT !.undoStack = Append(@, ClearAction(<<>>))]
        logged == IF Len(s.points) > 0
                  THEN [trimUndoStack(pushed) EXCEPT !.redoStack = <<>>]
                  ELSE s
    IN  [logged EXCEPT !.points = <<>>]

\* Variant: clearAllPoints without the guard of line 547.
clearAllPointsUnguarded(s) ==
    LET pushed == [s EXCEPT !.undoStack = Append(@, ClearAction(s.points))]
    IN  [trimUndoStack(pushed) EXCEPT !.redoStack = <<>>, !.points = <<>>]

clearAllPoints(s) ==
    LET pushed == [s EXCEPT !.undoStack = Append(@, ClearAction(s.points))]
        logged == IF Len(s.points) > 0
                  THEN [trimUndoStack(pushed) EXCEPT !.redoStack = <<>>]
                  ELSE s
    IN  [logged EXCEPT !.points = <<>>]

\* Variant: undoing an add removes the first point, shift() for pop().
applyInverseRemovesFirst(ps, a) ==
    IF a.action = "add" THEN (IF ps = <<>> THEN ps ELSE Tail(ps))
    ELSE IF a.action = "clear" THEN a.points
    ELSE ps

\* The inverse of an action on points (undo, lines 566-570).
applyInverse(ps, a) ==
    IF a.action = "add" THEN Pop(ps)
    ELSE IF a.action = "clear" THEN a.points
    ELSE ps

\* Variant: redoing an add does not put the point back.
applyForwardDropsAdd(ps, a) ==
    IF a.action = "add" THEN ps
    ELSE IF a.action = "clear" THEN <<>>
    ELSE ps

\* The forward effect of an action on points (redo, lines 586-590).
applyForward(ps, a) ==
    IF a.action = "add" THEN Append(ps, a.point)
    ELSE IF a.action = "clear" THEN <<>>
    ELSE ps

\* Variant: undo moves the action to redoStack and leaves points alone.
undoLeavingPoints(s) ==
    IF Len(s.undoStack) = 0 THEN [ret |-> FALSE, s |-> s]
    ELSE LET a == Last(s.undoStack)
             moved == [s EXCEPT !.undoStack = Pop(@),
                                !.redoStack = Append(@, a)]
         IN  [ret |-> TRUE, s |-> trimRedoStack(moved)]

\* undo(): the value returned and the ledger afterwards.
undo(s) ==
    IF Len(s.undoStack) = 0 THEN [ret |-> FALSE, s |-> s]
    ELSE LET a == Last(s.undoStack)
             moved == [s EXCEPT !.undoStack = Pop(@),
                                !.redoStack = Append(@, a)]
             trimmed == trimRedoStack(moved)
         IN  [ret |-> TRUE,
              s |-> [trimmed EXCEPT !.points = applyInverse(@, a)]]

\* Variant: redo copies the action to undoStack and leaves it on redoStack.
redoKeepingEntry(s) ==
    IF Len(s.redoStack) = 0 THEN [ret |-> FALSE, s |-> s]
    ELSE LET a == Last(s.redoStack)
             copied == [s EXCEPT !.undoStack = Append(@, a)]
             trimmed == trimUndoStack(copied)
         IN  [ret |-> TRUE,
              s |-> [trimmed EXCEPT !.points = applyForward(@, a)]]

\* redo(): the value returned and the ledger afterwards.
redo(s) ==
    IF Len(s.redoStack) = 0 THEN [ret |-> FALSE, s |-> s]
    ELSE LET a == Last(s.redoStack)
             moved == [s EXCEPT !.redoStack = Pop(@),
                                !.undoStack = Append(@, a)]
             trimmed == trimUndoStack(moved)
         IN  [ret |-> TRUE,
              s |-> [trimmed EXCEPT !.points = applyForward(@, a)]]

canUndo(s) == Len(s.undoStack) > 0
canRedo(s) == Len(s.redoStack) > 0


\* The value a null jerseyNumber has in the model.
NullJersey == <<"null">>

(***************************************************************************)
(* Session documents.  A document is the record of the own properties of   *)
(* the object JSON.parse returned.                                         *)
(***************************************************************************)
\* Points as handleCanvasClick makes them (simple mode).
P1 == [x |-> 120, y |-> 300, rotation |-> "1"]
P2 == [x |-> 300, y |-> 300, rotation |-> "1"]
\* A point a file may hold whose rotation is outside 1..6.
PBad == [x |-> 120, y |-> 300, rotation |-> "7"]
TheLine == [startX |-> 120, startY |-> 300, endX |-> 300, endY |-> 300]
\* A charted point of a file written before jersey/team tracking, and a current one.
LOld == [x |-> 300, y |-> 300, rotation |-> "1", line |-> TheLine]
LNew == [x |-> 300, y |-> 300, rotation |-> "1", line |-> TheLine,
         team |-> "us", jerseyNumber |-> <<"7">>]

DocName == <<"b">>

\* Saved simple-mode sessions: empty; one point; one point with a redo entry;
\* three points (more than maxPointCount, and more history than MaxM); a
\* cleared session; a long redo history.
SimpleDocs ==
    {[name |-> DocName, mode |-> "simpleHeatmap", points |-> <<>>],
     [name |-> DocName, mode |-> "simpleHeatmap", points |-> <<P1>>,
      undoStack |-> <<AddAction(P1)>>, redoStack |-> <<>>],
     [name |-> DocName, mode |-> "simpleHeatmap", points |-> <<P1>>,
      undoStack |-> <<AddAction(P1)>>, redoStack |-> <<AddAction(P2)>>],
     [name |-> DocName, mode |-> "simpleHeatmap", points |-> <<P2, P1, P1>>,
      undoStack |-> <<AddAction(P2), AddAction(P1), AddAction(P1)>>,
      redoStack |-> <<>>],
     [name |-> DocName, mode |-> "simpleHeatmap", points |-> <<>>,
      undoStack |-> <<AddAction(P1), ClearAction(<<P1>>)>>, redoStack |-> <<>>],
     [name |-> DocName, mode |-> "simpleHeatmap", points |-> <<>>,
      undoStack |-> <<>>,
      redoStack |-> <<AddAction(P1), AddAction(P2), AddAction(P2)>>]}

\* A document whose history does not fit its points (validateSessionData
\* does not look inside the stacks).
OddDocs ==
    {[name |-> DocName, mode |-> "simpleHeatmap", points |-> <<>>,
      undoStack |-> <<AddAction(P1)>>, redoStack |-> <<>>]}

\* Charting sessions: one written before jersey/team tracking, one current.
ChartingDocs ==
    {[name |-> DocName, mode |-> "heatmapCharting", points |-> <<LOld>>,
      undoStack |-> <<AddAction(LOld)>>,
      redoStack |-> <<ClearAction(<<LOld, LNew>>)>>],
     [name |-> DocName, mode |-> "heatmapCharting", points |-> <<LNew>>,
      undoStack |-> <<AddAction(LNew)>>, redoStack |-> <<>>]}

\* Documents validateSessionData rejects.
InvalidDocs ==
    {[mode |-> "simpleHeatmap", points |-> <<P1>>],
     [name |-> DocName, mode |-> "other", points |-> <<P1>>],
     [name |-> DocName, mode |-> "simpleHeatmap", points |-> <<P1, PBad>>]}

Docs == SimpleDocs \cup OddDocs \cup ChartingDocs \cup InvalidDocs

\* What a FileReader hands to loadFromFile: an error, text that is not JSON,
\* JSON that is not an object, or an object.
ReadResults ==
    {[outcome |-> "error"],
     [outcome |-> "text", json |-> "invalid"],
     [outcome |-> "text", json |-> "number"]}
    \cup {[outcome |-> "text", json |-> "object", data |-> d] : d \in Docs}

(***************************************************************************)
(* FileManager (src/heatmap.js 1625-1760).                                 *)
(***************************************************************************)
minRotation == 1
maxRotation == 6
\* The number a rotation token stands for.
RotationNumber(r) ==
    CASE r = "0" -> 0 [] r = "1" -> 1 [] r = "2" -> 2 [] r = "3" -> 3
      [] r = "4" -> 4 [] r = "5" -> 5 [] r = "6" -> 6 [] r = "7" -> 7

(***************************************************************************)
(* JSON values, as JSON.parse returns them: the kind k and, by kind, the   *)
(* boolean b, the number n/d, the string s (a sequence of characters or    *)
(* words), the array a or the object's own properties o.                   *)
(***************************************************************************)
JUndefined == [k |-> "undefined"]
JNull == [k |-> "null"]
JBool(v) == [k |-> "bool", b |-> v]
JNum(num, den) == [k |-> "num", n |-> num, d |-> den]
JStr(str) == [k |-> "str", s |-> str]
JArr(arr) == [k |-> "arr", a |-> arr]
\* An object literal: the properties of fields that are not undefined.
JObj(fields) ==
    [k |-> "obj",
     o |-> [f \in {g \in DOMAIN fields : fields[g].k # "undefined"} |-> fields[f]]]

\* value.f, for a value that is not null or undefined.
Get(j, f) ==
    IF j.k = "obj" /\ f \in DOMAIN j.o THEN j.o[f] ELSE JUndefined

\* ToBoolean.
Truthy(j) ==
    CASE j.k \in {"undefined", "null"} -> FALSE
      [] j.k = "bool" -> j.b
      [] j.k = "num" -> j.n # 0
      [] j.k = "str" -> j.s # <<>>
      [] OTHER -> TRUE

\* typeof j === 'object'
TypeofObject(j) == j.k \in {"null", "arr", "obj"}

\* The JSON value a session document of the model stands for.
PointToJson(p) ==
    JObj([f \in DOMAIN p |->
            CASE f \in {"x", "y"} -> JNum(p[f], 1)
              [] f = "rotation" ->
                     IF p[f] = "null" THEN JNull
                     ELSE JNum(RotationNumber(p[f]), 1)
              [] f = "line" ->
                     JObj([g \in DOMAIN p[f] |-> JNum(p[f][g], 1)])
              [] f = "team" ->
                     IF p[f] = "null" THEN JNull ELSE JStr(<<p[f]>>)
              [] f = "jerseyNumber" ->
                     IF p[f] = NullJersey THEN JNull ELSE JStr(p[f])])

PointsToJson(ps) == JArr([i \in 1..Len(ps) |-> PointToJson(ps[i])])

ActionToJson(act) ==
    JObj([f \in DOMAIN act |->
            CASE f = "action" -> JStr(<<act[f]>>)
              [] f = "point" -> PointToJson(act[f])
              [] f = "points" -> PointsToJson(act[f])])

ToJson(data) ==
    JObj([f \in DOMAIN data |->
            CASE f \in {"name", "version"} -> JStr(data[f])
              [] f \in {"mode", "savedAt"} -> JStr(<<data[f]>>)
              [] f = "points" -> PointsToJson(data[f])
              [] f \in {"undoStack", "redoStack"} ->
                     JArr([i \in 1..Len(data[f]) |-> ActionToJson(data[f][i])])])

\* Variant: coordinates outside [0, 2 * canvasSize] are refused.
validatePointRefusesFarCoordinates(point) ==
    /\ Truthy(point) /\ TypeofObject(point)
    /\ Get(point, "x").k = "num" /\ Get(point, "y").k = "num"
    /\ Get(point, "x").n >= 0
    /\ Get(point, "x").n <= 2 * canvasSize * Get(point, "x").d
    /\ Get(point, "y").n >= 0
    /\ Get(point, "y").n <= 2 * canvasSize * Get(point, "y").d
    /\ LET r == Get(point, "rotation")
       IN  r.k \notin {"null", "undefined"} =>
               /\ r.k = "num"
               /\ r.n >= minRotation * r.d
               /\ r.n <= maxRotation * r.d

\* validatePoint does not throw.
validatePoint(point) ==
    /\ Truthy(point) /\ TypeofObject(point)
    /\ Get(point, "x").k = "num" /\ Get(point, "y").k = "num"
    /\ LET r == Get(point, "rotation")
       IN  r.k \notin {"null", "undefined"} =>
               /\ r.k = "num"
               /\ r.n >= minRotation * r.d
               /\ r.n <= maxRotation * r.d

checkVersionCompatibility(fileVersion) == TRUE

\* Variant: the mode is not looked at.
validateSessionDataIgnoresMode(data) ==
    /\ Truthy(data) /\ TypeofObject(data)
    /\ Truthy(Get(data, "version")) =>
           checkVersionCompatibility(Get(data, "version")) \in BOOLEAN
    /\ Truthy(Get(data, "name")) /\ Get(data, "name").k = "str"
    /\ Get(data, "points").k = "arr"
    /\ \A i \in 1..Len(Get(data, "points").a) :
           validatePoint(Get(data, "points").a[i])
    /\ ~(Truthy(Get(data, "undoStack")) /\ Get(data, "undoStack").k # "arr")
    /\ ~(Truthy(Get(data, "redoStack")) /\ Get(data, "redoStack").k # "arr")

\* validateSessionData does not throw.
validateSessionData(data) ==
    /\ Truthy(data) /\ TypeofObject(data)
    /\ Truthy(Get(data, "version")) =>
           checkVersionCompatibility(Get(data, "version")) \in BOOLEAN
    /\ Truthy(Get(data, "name")) /\ Get(data, "name").k = "str"
    /\ Truthy(Get(data, "mode"))
    /\ Get(data, "mode").k = "str"
    /\ Len(Get(data, "mode").s) = 1
    /\ Get(data, "mode").s[1] \in validModes
    /\ Get(data, "points").k = "arr"
    /\ \A i \in 1..Len(Get(data, "points").a) :
           validatePoint(Get(data, "points").a[i])
    /\ ~(Truthy(Get(data, "undoStack")) /\ Get(data, "undoStack").k # "arr")
    /\ ~(Truthy(Get(data, "redoStack")) /\ Get(data, "redoStack").k # "arr")

\* What JSON.parse returned for a read result whose text is JSON.
ParsedJson(result) ==
    IF result.json = "number" THEN JNum(5, 1) ELSE ToJson(result.data)

\* loadFromFile: the promise resolves (with result.data) rather than rejects.
loadFromFileResolves(result) ==
    /\ result.outcome = "text"
    /\ result.json # "invalid"
    /\ validateSessionData(ParsedJson(result))

\* The documents of the model validateSessionData accepts.
ValidDocs == {data \in Docs : validateSessionData(ToJson(data))}

\* The read results for which the promise resolves.
ResolvingResults == {result \in ReadResults : loadFromFileResolves(result)}

\* loadFromFile(file) resolves.
Resolves(result) ==
    IF result \in ReadResults THEN result \in ResolvingResults
    ELSE loadFromFileResolves(result)

(***************************************************************************)
(* SessionState.load (src/heatmap.js 634-715).                             *)
(***************************************************************************)
HasLine(p) == "line" \in DOMAIN p

\* Variant: only the jersey number is migrated.
migratePointJerseyOnly(p) ==
    IF HasLine(p) /\ "jerseyNumber" \notin DOMAIN p
    THEN p @@ [jerseyNumber |-> NullJersey] ELSE p

migratePoint(p) ==
    LET j == IF HasLine(p) /\ "jerseyNumber" \notin DOMAIN p
             THEN p @@ [jerseyNumber |-> NullJersey] ELSE p
    IN  IF HasLine(j) /\ "team" \notin DOMAIN j
        THEN j @@ [team |-> "null"] ELSE j

migratePoints(ps) == [i \in 1..Len(ps) |-> migratePoint(ps[i])]

migrateAction(a) ==
    IF a.action = "add" /\ "point" \in DOMAIN a
    THEN [a EXCEPT !.point = migratePoint(@)]
    ELSE IF a.action = "clear" /\ "points" \in DOMAIN a
    THEN [a EXCEPT !.points = migratePoints(@)]
    ELSE a

migrateStack(stack) == [i \in 1..Len(stack) |-> migrateAction(stack[i])]

LoadedSessionName == <<"L", "o", "a", "d", "e", "d">>

\* Line 690 evaluates the identifier ults, which nothing in the file declares:
\* reading it throws a ReferenceError, for every document.
ultsIsDeclared == FALSE

\* Variant: a point counts when its jerseyNumber is null, not when it is absent.
lacksJerseyNumberByValue(p) ==
    HasLine(p) /\ ("jerseyNumber" \notin DOMAIN p \/ p.jerseyNumber = NullJersey)

\* The tests of lines 643, 663 and 673, and of lines 647, 667 and 677.
lacksJerseyNumber(p) == HasLine(p) /\ "jerseyNumber" \notin DOMAIN p

lacksTeam(p) == HasLine(p) /\ "team" \notin DOMAIN p

\* What the forEach of lines 642-651 (and 672-681) counts over ps.
countPoints(ps) ==
    [jersey |-> Cardinality({i \in 1..Len(ps) : lacksJerseyNumber(ps[i])}),
     team |-> Cardinality({i \in 1..Len(ps) : lacksTeam(ps[i])})]

\* The points of an action the closure of lines 657-685 visits.
visitedPoints(a) ==
    IF a.action = "add" /\ "point" \in DOMAIN a THEN <<a.point>>
    ELSE IF a.action = "clear" /\ "points" \in DOMAIN a THEN a.points
    ELSE <<>>

\* What the closure migrateStack returns: { jersey, team }.
RECURSIVE migrateStackCounts(_)
migrateStackCounts(stack) ==
    IF stack = <<>> THEN [jersey |-> 0, team |-> 0]
    ELSE LET here == countPoints(visitedPoints(Head(stack)))
             rest == migrateStackCounts(Tail(stack))
         IN  [jersey |-> here.jersey + rest.jersey,
              team |-> here.team + rest.team]

\* The counts of one call of load: what lines 642-651 counted in points,
\* undoResults, redoResults, and pointsMigrated and teamMigrated as lines
\* 689-690 leave them.
migrationCounts(data) ==
    LET current == countPoints(IF "points" \in DOMAIN data
                               THEN data.points ELSE <<>>)
        undoResults == migrateStackCounts(IF "undoStack" \in DOMAIN data
                                          THEN data.undoStack ELSE <<>>)
        redoResults == migrateStackCounts(IF "redoStack" \in DOMAIN data
                                          THEN data.redoStack ELSE <<>>)
    IN  [current |-> current,
         undoResults |-> undoResults,
         redoResults |-> redoResults,
         pointsMigrated |-> current.jersey + undoResults.jersey
                            + redoResults.jersey,
         teamMigrated |-> current.team + undoResults.team + redoResults.team]

\* The session after load(data, viewOnly) called on session old, and whether
\* the call threw.  Lines 635-688 have run when line 690 throws; lines
\* 691-714, which build the report and set migrationInfo and isViewOnly, are
\* never reached: report, what the call assigned to migrationInfo, is <<>>
\* (nothing) on every path.
load(old, data, viewOnly) ==
    LET assigned ==
            [name |-> IF "name" \in DOMAIN data /\ data.name # <<>>
                      THEN data.name ELSE LoadedSessionName,
             mode |-> data.mode,
             points |-> migratePoints(IF "points" \in DOMAIN data
                                      THEN data.points ELSE <<>>),
             undoStack |-> migrateStack(IF "undoStack" \in DOMAIN data
                                        THEN data.undoStack ELSE <<>>),
             redoStack |-> migrateStack(IF "redoStack" \in DOMAIN data
                                        THEN data.redoStack ELSE <<>>),
             isViewOnly |-> old.isViewOnly]
    IN  IF ultsIsDeclared
        THEN [threw |-> FALSE, s |-> [assigned EXCEPT !.isViewOnly = viewOnly],
              counts |-> migrationCounts(data), report |-> <<>>]
        ELSE [threw |-> TRUE, s |-> assigned, counts |-> migrationCounts(data),
              report |-> <<>>]

\* CONFIG.version (line 29) and the value of new Date().toISOString().
configVersion == <<"1", ".", "1">>
Now == "now"

\* Variant: the document carries the current points and no history.
exportWithoutHistory(s) ==
    [version |-> configVersion, name |-> s.name, mode |-> s.mode,
     points |-> s.points, undoStack |-> <<>>, redoStack |-> <<>>,
     savedAt |-> Now]

\* export(), lines 735-745.
export(s) ==
    [version |-> configVersion, name |-> s.name, mode |-> s.mode,
     points |-> s.points, undoStack |-> s.undoStack,
     redoStack |-> s.redoStack, savedAt |-> Now]

\* reset(name, mode), lines 722-729.
reset(n, m) ==
    [name |-> n, mode |-> m, points |-> <<>>, undoStack |-> <<>>,
     redoStack |-> <<>>, isViewOnly |-> FALSE]

Session ==
    [name |-> name, mode |-> mode, points |-> points, undoStack |-> undoStack,
     redoStack |-> redoStack, isViewOnly |-> isViewOnly]


(***************************************************************************)
(* sanitizeJerseyNumber (src/heatmap.js 241-261) on a sequence of          *)
(* characters: keep the digits, at most two of them; '' if none is left.   *)
(***************************************************************************)
Digits == {"0", "1", "2", "3", "4", "5", "6", "7", "8", "9"}

sanitizeJerseyNumber(j) ==
    LET digits == SelectSeq(j, LAMBDA c : c \in Digits)
    IN  IF Len(digits) > 2 THEN SubSeq(digits, 1, 2) ELSE digits

(***************************************************************************)
(* History variables.                                                      *)
(***************************************************************************)
NoRun == [phase |-> "none", added |-> <<>>, undos |-> 0]

Op(o, r, e) == [op |-> o, ret |-> r, evicted |-> e]

\* History of a call of saveToFile: the document it was handed.
SaveOp(o, sessionData) == Op(o, TRUE, FALSE) @@ [saved |-> sessionData]

\* The value of since after a start, save or load that left ledger l, the
\* load having been asked to be view-only or not.
SinceAfter(l, viewOnly) ==
    IF since = <<>> THEN <<>> ELSE <<[ledger |-> l, viewOnly |-> viewOnly]>>

\* The live session was loaded with the View Only option.
LoadedToView == since # <<>> /\ since[1].viewOnly

\* The run of operations since the session was started new: "adds" while only
\* addPoint was called, "undos" while only successful undo() followed them,
\* "undoredo" once redo() joined in; added is what the addPoint calls added.
RunAfter(o, r, p) ==
    IF run.phase = "none" THEN run
    ELSE IF o = "add"
    THEN IF run.phase = "adds" THEN [run EXCEPT !.added = Append(@, p)] ELSE NoRun
    ELSE IF o = "undo"
    THEN IF r /\ run.phase \in {"adds", "undos"}
         THEN [run EXCEPT !.phase = "undos", !.undos = @ + 1]
         ELSE run
    ELSE IF o = "redo"
    THEN IF run.phase \in {"undos", "undoredo"}
         THEN (IF r THEN [run EXCEPT !.phase = "undoredo"] ELSE run)
         ELSE NoRun
    ELSE NoRun

(***************************************************************************)
(* Init: the state HeatmapApp's constructor leaves (lines 1771-1821, with  *)
(* SessionState's constructor, 483-492), the session modal showing.        *)
(***************************************************************************)
\* What the two constructors assign.
Constructed ==
    /\ name = <<>>
    /\ mode = "simpleHeatmap"
    /\ points = <<>>
    /\ undoStack = <<>>
    /\ redoStack = <<>>
    /\ isViewOnly = FALSE
    /\ geometryMode = "simpleHeatmap"
    /\ isDrawing = FALSE
    /\ lineStart = <<>>
    /\ currentJerseyNumber = <<>>
    /\ activeJerseyNumberFilters = {}
    /\ activeRotationFilters = {}
    /\ trackRotation = TRUE
    /\ trackTeam = TRUE
    /\ currentRotation = "1"
    /\ currentTeam = "us"
    /\ hasUnsavedChanges = FALSE
    /\ screen = "sessionModal"
    /\ pendingLoads = [v \in BOOLEAN |-> 0]
    /\ migrationInfo = <<>>
    /\ combineMode = "null"
    /\ combinedData = <<>>
    /\ combineFileList = <<>>
    /\ combining = <<>>

Init ==
    /\ maxUndoStackSize \in 0..MaxM
    /\ autoTrimUndoStack \in BOOLEAN
    /\ ~autoTrimUndoStack => maxUndoStackSize = MaxM
    /\ Constructed
    /\ disk = <<>>
    /\ since = <<>>
    /\ lastOp = Op("init", FALSE, FALSE)
    /\ origin = "none"
    /\ everEvicted = FALSE
    /\ run = NoRun

(***************************************************************************)
(* Inputs.                                                                 *)
(***************************************************************************)
RawNames == {<<>>, <<"a">>, <<" ", "a", "/">>}
\* clientX - rect.left and clientY - rect.top of a mouse event
ClickXs == {120, 300}
ClickYs == {300}

(***************************************************************************)
(* HeatmapApp.startNewSession (lines 2600-2638).                           *)
(***************************************************************************)
StartNewSession(rawName, m) ==
    LET n == sanitizeSessionName(rawName)
        s == reset(n, m)
    IN  /\ n # <<>>
        /\ name' = s.name
        /\ mode' = s.mode
        /\ points' = s.points
        /\ undoStack' = s.undoStack
        /\ redoStack' = s.redoStack
        /\ isViewOnly' = s.isViewOnly
        /\ geometryMode' = m
        /\ currentJerseyNumber' = <<>>
        /\ currentRotation' = "1"
        /\ activeJerseyNumberFilters' = {}
        /\ activeRotationFilters' = {}
        /\ hasUnsavedChanges' = FALSE
        /\ screen' = "app"
        /\ lastOp' = Op("new", TRUE, FALSE)
        /\ origin' = "new"
        /\ everEvicted' = FALSE
        /\ run' = [phase |-> "adds", added |-> <<>>, undos |-> 0]
        /\ since' = SinceAfter([points |-> s.points, undoStack |-> s.undoStack,
                                redoStack |-> s.redoStack], FALSE)
        /\ UNCHANGED <<configVars, migrationInfo, combineVars, disk, isDrawing,
                       lineStart, trackRotation, trackTeam, currentTeam,
                       pendingLoads>>

(***************************************************************************)
(* Ledger steps of the controller.  LedgerStep is what every handler that  *)
(* calls a SessionState operation does to the ledger and to the history.   *)
(***************************************************************************)
LedgerStep(o, r, e, p, s) ==
    /\ points' = s.points
    /\ undoStack' = s.undoStack
    /\ redoStack' = s.redoStack
    /\ lastOp' = Op(o, r, e)
    /\ run' = RunAfter(o, r, p)
    /\ everEvicted' = (everEvicted \/ e)
    /\ UNCHANGED <<configVars, restVars, name, mode, isViewOnly, origin>>

\* The room the model leaves for one more push onto undoStack.
RoomToPush == TrimOn \/ Len(undoStack) < MaxStack

\* handleCanvasClick (lines 2230-2262): simple mode only.
HandleCanvasClick(cx, cy) ==
    LET x == sanitizeCoordinate(cx, canvasWidth)
        y == sanitizeCoordinate(cy, canvasHeight(geometryMode))
        p == [x |-> x, y |-> y,
              rotation |-> IF trackRotation THEN currentRotation ELSE "null"]
        s == addPoint(Ledger, p)
    IN  /\ screen = "app"
        /\ mode # "heatmapCharting"
        /\ ~isViewOnly
        /\ isWithinBounds(geometryMode, x, y)
        /\ Len(points) < MaxPoints /\ RoomToPush
        /\ activeRotationFilters' =
               IF activeRotationFilters # {}
               THEN activeRotationFilters \cup {currentRotation}
               ELSE activeRotationFilters
        /\ LedgerStep("add", TRUE, Len(s.undoStack) # Len(undoStack) + 1, p, s)
        /\ hasUnsavedChanges' = TRUE
        /\ UNCHANGED <<drawVars, activeJerseyNumberFilters, geometryMode,
                       screen, pendingLoads>>

\* handleCanvasMouseDown (lines 2268-2290): charting mode only.
HandleCanvasMouseDown(cx, cy) ==
    LET x == sanitizeCoordinate(cx, canvasWidth)
        y == sanitizeCoordinate(cy, canvasHeight(geometryMode))
    IN  /\ screen = "app"
        /\ mode = "heatmapCharting"
        /\ ~isViewOnly
        /\ isWithinBounds(geometryMode, x, y)
        /\ activeRotationFilters' =
               IF activeRotationFilters # {}
               THEN activeRotationFilters \cup {currentRotation}
               ELSE activeRotationFilters
        /\ isDrawing' = TRUE
        /\ lineStart' = <<[x |-> x, y |-> y]>>
        /\ lastOp' = Op("other", TRUE, FALSE)
        /\ UNCHANGED <<configVars, restVars, sessionVars, currentJerseyNumber,
                       trackRotation, trackTeam, currentRotation, currentTeam,
                       activeJerseyNumberFilters, appVars, origin, run, everEvicted>>

\* Variant: the point gets a team field only while team tracking is on.
HandleCanvasMouseUpTeamOptional(cx, cy) ==
    LET x == sanitizeCoordinate(cx, canvasWidth)
        y == sanitizeCoordinate(cy, canvasHeight(geometryMode))
        sanitized == sanitizeJerseyNumber(currentJerseyNumber)
        q == [x |-> x, y |-> y,
              rotation |-> IF trackRotation THEN currentRotation ELSE "null",
              line |-> [startX |-> lineStart[1].x, startY |-> lineStart[1].y,
                        endX |-> x, endY |-> y],
              jerseyNumber |-> IF currentJerseyNumber # <<>> /\ sanitized # <<>>
                               THEN sanitized ELSE NullJersey]
        p == IF trackTeam THEN q @@ [team |-> currentTeam] ELSE q
        s == addPoint(Ledger, p)
    IN  /\ screen = "app"
        /\ mode = "heatmapCharting"
        /\ ~isViewOnly
        /\ isDrawing
        /\ isWithinBounds(geometryMode, x, y)
        /\ Len(points) < MaxPoints /\ RoomToPush
        /\ LedgerStep("add", TRUE, Len(s.undoStack) # Len(undoStack) + 1, p, s)
        /\ hasUnsavedChanges' = TRUE
        /\ currentJerseyNumber' = <<>>
        /\ isDrawing' = FALSE
        /\ lineStart' = <<>>
        /\ UNCHANGED <<trackRotation, trackTeam, currentRotation, currentTeam,
                       filterVars, geometryMode, screen, pendingLoads>>

\* handleCanvasMouseUp (lines 2296-2353): charting mode only.
HandleCanvasMouseUp(cx, cy) ==
    LET x == sanitizeCoordinate(cx, canvasWidth)
        y == sanitizeCoordinate(cy, canvasHeight(geometryMode))
        sanitized == sanitizeJerseyNumber(currentJerseyNumber)
        p == [x |-> x, y |-> y,
              rotation |-> IF trackRotation THEN currentRotation ELSE "null",
              line |-> [startX |-> lineStart[1].x, startY |-> lineStart[1].y,
                        endX |-> x, endY |-> y],
              team |-> IF trackTeam THEN currentTeam ELSE "null",
              jerseyNumber |-> IF currentJerseyNumber # <<>> /\ sanitized # <<>>
                               THEN sanitized ELSE NullJersey]
        s == addPoint(Ledger, p)
    IN  /\ screen = "app"
        /\ mode = "heatmapCharting"
        /\ ~isViewOnly
        /\ isDrawing
        /\ isWithinBounds(geometryMode, x, y)
        /\ Len(points) < MaxPoints /\ RoomToPush
        /\ LedgerStep("add", TRUE, Len(s.undoStack) # Len(undoStack) + 1, p, s)
        /\ hasUnsavedChanges' = TRUE
        /\ currentJerseyNumber' = <<>>
        /\ isDrawing' = FALSE
        /\ lineStart' = <<>>
        /\ UNCHANGED <<trackRotation, trackTeam, currentRotation, currentTeam,
                       filterVars, geometryMode, screen, pendingLoads>>

\* clearHeatmap (lines 2447-2455), the Clear button.
ClearHeatmap ==
    LET s == clearAllPoints(Ledger)
    IN  /\ ~isViewOnly
        /\ points = <<>> \/ RoomToPush
        /\ LedgerStep("clear", Len(points) > 0,
                      Len(points) > 0 /\ Len(s.undoStack) # Len(undoStack) + 1,
                      <<>>, s)
        /\ hasUnsavedChanges' = TRUE
        /\ UNCHANGED <<drawVars, filterVars, geometryMode, screen, pendingLoads>>

\* Variant: an undo that leaves hasUnsavedChanges as it was.
AppUndoKeepingFlag ==
    LET u == undo(Ledger)
    IN  /\ LedgerStep("undo", u.ret,
                      u.ret /\ Len(u.s.redoStack) # Len(redoStack) + 1, <<>>, u.s)
        /\ UNCHANGED <<drawVars, filterVars, appVars>>

\* HeatmapApp.undo (lines 2460-2465).
AppUndo ==
    LET u == undo(Ledger)
    IN  /\ LedgerStep("undo", u.ret,
                      u.ret /\ Len(u.s.redoStack) # Len(redoStack) + 1, <<>>, u.s)
        /\ hasUnsavedChanges' = (IF u.ret THEN TRUE ELSE hasUnsavedChanges)
        /\ UNCHANGED <<drawVars, filterVars, geometryMode, screen, pendingLoads>>

\* HeatmapApp.redo (lines 2470-2475).
AppRedo ==
    LET r == redo(Ledger)
    IN  /\ LedgerStep("redo", r.ret,
                      r.ret /\ Len(r.s.undoStack) # Len(undoStack) + 1, <<>>, r.s)
        /\ hasUnsavedChanges' = (IF r.ret THEN TRUE ELSE hasUnsavedChanges)
        /\ UNCHANGED <<drawVars, filterVars, geometryMode, screen, pendingLoads>>

\* The Undo and Redo buttons of the main container (wired at init; updateButtons,
\* lines 1461-1470, disables them in view-only mode).
UndoButton == ~isViewOnly /\ AppUndo
RedoButton == ~isViewOnly /\ AppRedo

\* handleKeyboard (lines 3032-3076): Ctrl/Cmd+Z, Ctrl/Cmd+Shift+Z or Ctrl/Cmd+Y.
\* The listener is on the document: it runs whatever is on screen.
KeyboardUndo == ~isViewOnly /\ AppUndo
KeyboardRedo == ~isViewOnly /\ AppRedo


(***************************************************************************)
(* HeatmapRenderer.redrawAll (lines 1243-1280): the points it draws, in    *)
(* the order it draws them.  A filter set is a set of tokens: rotations    *)
(* "1".."6" and jersey numbers as sequences of characters.                 *)
(***************************************************************************)
\* pointJerseyNumber of line 1254.
pointJerseyNumber(p) ==
    IF HasLine(p) /\ "jerseyNumber" \in DOMAIN p /\ p.jerseyNumber # NullJersey
    THEN p.jerseyNumber ELSE <<"-">>

\* Variant: every rotation is taken for an untracked one.
rotValAlwaysSentinel(p) == "-"

\* rotVal of line 1263.
rotVal(p) ==
    IF "rotation" \notin DOMAIN p \/ p.rotation = "null" THEN "-" ELSE p.rotation

\* Variant: a point without a rotation passes every rotation filter.
isDrawnUntrackedPasses(p, jerseyNumberFilters, rotationFilters) ==
    IF jerseyNumberFilters # {} /\ pointJerseyNumber(p) \notin jerseyNumberFilters
    THEN FALSE
    ELSE IF rotationFilters # {} /\ rotVal(p) # "-"
            /\ rotVal(p) \notin rotationFilters
    THEN FALSE
    ELSE TRUE

\* The callback of points.forEach does not return before the drawing calls.
isDrawn(p, jerseyNumberFilters, rotationFilters) ==
    IF jerseyNumberFilters # {} /\ pointJerseyNumber(p) \notin jerseyNumberFilters
    THEN FALSE
    ELSE IF rotationFilters # {} /\ rotVal(p) \notin rotationFilters
    THEN FALSE
    ELSE TRUE

RECURSIVE redrawAll(_, _, _)
redrawAll(ps, jerseyNumberFilters, rotationFilters) ==
    IF ps = <<>> THEN <<>>
    ELSE LET rest == redrawAll(Tail(ps), jerseyNumberFilters, rotationFilters)
         IN  IF isDrawn(Head(ps), jerseyNumberFilters, rotationFilters)
             THEN <<Head(ps)>> \o rest
             ELSE rest

(***************************************************************************)
(* The filter handlers of HeatmapApp (lines 2903-3003, 2411-2426).         *)
(***************************************************************************)
\* Variant: the assignment toggles the rotation in the filter set.
autoAddRotationToggles(filters, r) ==
    IF filters = {} THEN filters
    ELSE IF r \in filters THEN filters \ {r} ELSE filters \cup {r}

\* Lines 2913-2914 (and 2247-2248, 2282-2283): with a filter active, the
\* rotation is added to it.
autoAddRotation(filters, r) ==
    IF filters # {} THEN filters \cup {r} ELSE filters

\* Variant: a toggle that only ever adds.
toggleFilterOnlyAdds(filters, t) == filters \cup {t}

\* Lines 2952-2956 and 2993-2999: delete the token if the set has it, add it
\* otherwise.
toggleFilter(filters, t) ==
    IF t \in filters THEN filters \ {t} ELSE filters \cup {t}

\* The rotation buttons the operator uses (updateRotationList makes R1..R6).
RotationButtons == {"2", "4"}

\* parseInt of a jersey number followed by String: leading zeros are dropped.
RECURSIVE StripLeadingZeros(_)
StripLeadingZeros(j) ==
    IF Len(j) > 1 /\ Head(j) = "0" THEN StripLeadingZeros(Tail(j)) ELSE j

\* The data-jersey-number values of the buttons updateJerseyNumberList makes
\* (lines 1374-1422).
JerseyButtons(ps) ==
    {<<"-">> : i \in {k \in 1..Len(ps) :
                         HasLine(ps[k]) /\ pointJerseyNumber(ps[k]) = <<"-">>}}
    \cup {StripLeadingZeros(ps[i].jerseyNumber) :
              i \in {k \in 1..Len(ps) :
                        HasLine(ps[k]) /\ pointJerseyNumber(ps[k]) # <<"-">>}}

\* The rest of the state a filter handler leaves alone.
FilterFrame ==
    UNCHANGED <<configVars, restVars, sessionVars, isDrawing, lineStart,
                currentJerseyNumber, trackTeam, currentTeam, appVars, origin, run, everEvicted>>

\* handleRotationClick (lines 2903-2924): left click on a rotation button.
HandleRotationClick(r) ==
    /\ ~isViewOnly
    /\ trackRotation
    /\ currentRotation' = r
    /\ activeRotationFilters' = autoAddRotation(activeRotationFilters, r)
    /\ lastOp' = Op("setRotation", TRUE, FALSE)
    /\ UNCHANGED <<activeJerseyNumberFilters, trackRotation>>
    /\ FilterFrame

\* handleRotationRightClick (lines 2943-2966): right click on a rotation button.
HandleRotationRightClick(r) ==
    /\ trackRotation
    /\ activeRotationFilters' = toggleFilter(activeRotationFilters, r)
    /\ lastOp' = Op("toggleRotationFilter", TRUE, FALSE)
    /\ UNCHANGED <<activeJerseyNumberFilters, trackRotation, currentRotation>>
    /\ FilterFrame

\* Variant: either button clears both filter sets.
HandleClearFiltersBoth(filterType) ==
    /\ activeRotationFilters' = {}
    /\ activeJerseyNumberFilters' = {}
    /\ lastOp' = Op(IF filterType = "rotation" THEN "clearRotationFilters"
                    ELSE "clearJerseyFilters", TRUE, FALSE)
    /\ UNCHANGED <<trackRotation, currentRotation>>
    /\ FilterFrame

\* handleClearFilters (lines 2972-2980).
HandleClearFilters(filterType) ==
    /\ activeRotationFilters' =
           IF filterType = "rotation" THEN {} ELSE activeRotationFilters
    /\ activeJerseyNumberFilters' =
           IF filterType = "jersey" THEN {} ELSE activeJerseyNumberFilters
    /\ lastOp' = Op(IF filterType = "rotation" THEN "clearRotationFilters"
                    ELSE "clearJerseyFilters", TRUE, FALSE)
    /\ UNCHANGED <<trackRotation, currentRotation>>
    /\ FilterFrame

\* handleJerseyNumberFilterClick (lines 2986-3003): click on a button of the
\* jersey number list.
HandleJerseyNumberFilterClick(t) ==
    /\ t \in JerseyButtons(points)
    /\ activeJerseyNumberFilters' = toggleFilter(activeJerseyNumberFilters, t)
    /\ lastOp' = Op("toggleJerseyFilter", TRUE, FALSE)
    /\ UNCHANGED <<activeRotationFilters, trackRotation, currentRotation>>
    /\ FilterFrame

\* toggleTrackRotation (lines 2411-2426).
ToggleTrackRotation ==
    /\ ~isViewOnly
    /\ trackRotation' = ~trackRotation
    /\ activeRotationFilters' = IF trackRotation THEN {} ELSE activeRotationFilters
    /\ lastOp' = Op("toggleTrackRotation", TRUE, FALSE)
    /\ UNCHANGED <<activeJerseyNumberFilters, currentRotation>>
    /\ FilterFrame

\* toggleTrackTeam (lines 2431-2442).
ToggleTrackTeam ==
    /\ ~isViewOnly
    /\ trackTeam' = ~trackTeam
    /\ lastOp' = Op("toggleTrackTeam", TRUE, FALSE)
    /\ UNCHANGED <<configVars, restVars, sessionVars, isDrawing, lineStart,
                   currentJerseyNumber, trackRotation, currentRotation,
                   currentTeam, filterVars, appVars, origin, run, everEvicted>>

\* handleTeamClick (lines 3009-3025): click on the Us or the Opp button.
HandleTeamClick(team) ==
    /\ ~isViewOnly
    /\ currentTeam' = team
    /\ lastOp' = Op("setTeam", TRUE, FALSE)
    /\ UNCHANGED <<configVars, restVars, sessionVars, isDrawing, lineStart,
                   currentJerseyNumber, trackRotation, trackTeam,
                   currentRotation, filterVars, appVars, origin, run,
                   everEvicted>>

\* Digits typed while the model lets the jersey number grow.
MaxJerseyDigits == 1
JerseyKeys == {"7"}

\* handleKeyboard (lines 3036-3050): a digit key in charting mode, while the
\* jersey number has fewer than cap digits.
HandleKeyboardDigit(d, cap) ==
    LET sanitized == sanitizeJerseyNumber(Append(currentJerseyNumber, d))
    IN  /\ ~isViewOnly
        /\ mode = "heatmapCharting"
        /\ Len(currentJerseyNumber) < 2
        /\ Len(currentJerseyNumber) < cap
        /\ currentJerseyNumber' = IF sanitized # <<>> THEN sanitized
                                  ELSE currentJerseyNumber
        /\ lastOp' = Op("other", TRUE, FALSE)
        /\ UNCHANGED <<configVars, restVars, sessionVars, isDrawing, lineStart,
                       trackRotation, trackTeam, currentRotation, currentTeam,
                       filterVars, appVars, origin, run, everEvicted>>

HandleDigitKey(d) == HandleKeyboardDigit(d, MaxJerseyDigits)

(***************************************************************************)
(* saveSession (lines 2480-2484): the Save button (disabled in view-only   *)
(* mode by updateButtons) or Ctrl/Cmd+S (handleKeyboard returns at once in *)
(* view-only mode).                                                        *)
(***************************************************************************)
SaveSession ==
    /\ ~isViewOnly
    /\ disk' = <<export(Session)>>
    /\ hasUnsavedChanges' = FALSE
    /\ lastOp' = SaveOp("save", export(Session))
    /\ since' = SinceAfter(Ledger, LoadedToView)
    /\ UNCHANGED <<configVars, migrationInfo, combineVars, sessionVars,
                   drawVars, filterVars, geometryMode, screen, pendingLoads,
                   origin, run, everEvicted>>

(***************************************************************************)
(* HeatmapApp.loadSession (lines 2489-2553).  The handler runs to the      *)
(* await of line 2510 (LoadSession) and resumes when the FileReader has    *)
(* finished (LoadSessionResume); other events are handled in between.      *)
(***************************************************************************)
PendingCount == pendingLoads[TRUE] + pendingLoads[FALSE]

\* confirmLoadBtn click: no file chosen ("none"), a file over maxFileSize
\* ("tooLarge"), or a file that is read ("ok").
LoadSession(file, viewOnly) ==
    /\ IF file = "ok"
       THEN /\ PendingCount < MaxPending
            /\ pendingLoads' = [pendingLoads EXCEPT ![viewOnly] = @ + 1]
            /\ lastOp' = Op("other", TRUE, FALSE)
       ELSE /\ pendingLoads' = pendingLoads
            /\ lastOp' = Op("loadRejected", FALSE, FALSE)
    /\ UNCHANGED <<configVars, restVars, sessionVars, drawVars, filterVars, geometryMode,
                   hasUnsavedChanges, screen, origin, run, everEvicted>>

\* The continuation after the await: result is what the reader produced,
\* proceed the operator's answer to the point-count confirm().
LoadSessionResume(viewOnly, result, proceed) ==
    LET resolved == Resolves(result)
        declined == /\ resolved
                    /\ Len(result.data.points) > maxPointCount
                    /\ ~proceed
        calls == resolved /\ ~declined
        l == load(Session, result.data, viewOnly)
        completes == calls /\ ~l.threw
    IN  /\ pendingLoads[viewOnly] > 0
        /\ pendingLoads' = [pendingLoads EXCEPT ![viewOnly] = @ - 1]
        /\ IF calls
           THEN /\ name' = l.s.name
                /\ mode' = l.s.mode
                /\ points' = l.s.points
                /\ undoStack' = l.s.undoStack
                /\ redoStack' = l.s.redoStack
                /\ isViewOnly' = l.s.isViewOnly
                /\ origin' = "loaded"
                /\ everEvicted' = FALSE
                /\ run' = NoRun
                /\ since' = SinceAfter([points |-> l.s.points,
                                        undoStack |-> l.s.undoStack,
                                        redoStack |-> l.s.redoStack], viewOnly)
           ELSE UNCHANGED <<sessionVars, origin, run, everEvicted, since>>
        /\ IF completes
           THEN /\ geometryMode' = l.s.mode
                /\ currentJerseyNumber' = <<>>
                /\ activeJerseyNumberFilters' = {}
                /\ activeRotationFilters' = {}
                /\ hasUnsavedChanges' = FALSE
                /\ screen' = "app"
           ELSE UNCHANGED <<geometryMode, currentJerseyNumber, filterVars,
                            hasUnsavedChanges, screen>>
        \* lines 2524-2527: the report, if load left one, is shown (lastOp.shown)
        \* and cleared
        /\ migrationInfo' = IF completes THEN <<>>
                            ELSE IF calls /\ l.report # <<>> THEN l.report
                            ELSE migrationInfo
        /\ lastOp' = IF completes
                     THEN Op("loaded", TRUE, FALSE)
                          @@ [counts |-> l.counts, shown |-> l.report]
                     ELSE IF calls
                     THEN Op("loadThrew", FALSE, FALSE)
                          @@ [counts |-> l.counts, shown |-> <<>>]
                     ELSE IF declined THEN Op("loadDeclined", FALSE, FALSE)
                     ELSE Op("loadRejected", FALSE, FALSE)
        /\ UNCHANGED <<configVars, combineVars, disk, isDrawing, lineStart,
                       trackRotation, trackTeam, currentRotation, currentTeam>>

(***************************************************************************)
(* The specification: the session life cycle, simple-mode input and the    *)
(* ledger operations.                                                      *)
(***************************************************************************)
Next ==
    \/ \E n \in RawNames, m \in validModes : StartNewSession(n, m)
    \/ \E cx \in ClickXs, cy \in ClickYs : HandleCanvasClick(cx, cy)
    \/ ClearHeatmap
    \/ UndoButton
    \/ RedoButton
    \/ KeyboardUndo
    \/ KeyboardRedo
    \/ \E f \in {"none", "tooLarge", "ok"}, v \in BOOLEAN : LoadSession(f, v)
    \/ \E v \in BOOLEAN, r \in ReadResults, ok \in BOOLEAN :
           LoadSessionResume(v, r, ok)

Spec == Init /\ [][Next]_vars

(***************************************************************************)
(* The specification of drawing and filtering: the shipped configuration   *)
(* (auto-trim on), canvas input in both modes and the filter handlers.     *)
(***************************************************************************)
\* Points drawn in one session of this specification.
MaxDrawn == 2
DrawXs == {120}

InitFilter == Init /\ autoTrimUndoStack /\ maxUndoStackSize = MaxM

\* The application as shipped (auto-trim on), just constructed.
Shipped ==
    /\ maxUndoStackSize = MaxM
    /\ autoTrimUndoStack = TRUE
    /\ Constructed
    /\ lastOp = Op("init", FALSE, FALSE)
    /\ origin = "none"
    /\ everEvicted = FALSE
    /\ run = NoRun

NextFilter ==
    \/ \E n \in RawNames, m \in validModes : StartNewSession(n, m)
    \/ \E cx \in DrawXs, cy \in ClickYs :
           Len(points) < MaxDrawn /\ HandleCanvasClick(cx, cy)
    \/ \E cx \in DrawXs, cy \in ClickYs : HandleCanvasMouseDown(cx, cy)
    \/ \E cx \in DrawXs, cy \in ClickYs :
           Len(points) < MaxDrawn /\ HandleCanvasMouseUp(cx, cy)
    \/ \E r \in RotationButtons : HandleRotationClick(r)
    \/ \E r \in RotationButtons : HandleRotationRightClick(r)
    \/ \E t \in {"rotation", "jersey"} : HandleClearFilters(t)
    \/ \E t \in JerseyButtons(points) : HandleJerseyNumberFilterClick(t)
    \/ ToggleTrackRotation
    \/ \E d \in JerseyKeys : HandleDigitKey(d)

FilterSpec == InitFilter /\ [][NextFilter]_vars

(***************************************************************************)
(* The specification of validation: FileManager.loadFromFile's onload      *)
(* handler (lines 1633-1647) run on the JSON values a file may hold.       *)
(***************************************************************************)
JsonNames == {JUndefined, JStr(<<>>), JStr(<<"b">>), JNum(5, 1)}
JsonModes == {JUndefined, JStr(<<"simpleHeatmap">>), JStr(<<"heatmapCharting">>),
              JStr(<<"other">>)}
JsonVersions == {JUndefined, JStr(<<"1", ".", "0">>), JNum(2, 1)}
JsonStacks == {JUndefined, JArr(<<>>), JStr(<<"x">>)}
JsonXs == {JUndefined, JStr(<<"1">>), JNum(120, 1), JNum(0 - 5, 1), JNum(5000, 1)}
JsonYs == {JUndefined, JNum(300, 1)}
JsonRotations ==
    {JUndefined, JNull, JNum(0, 1), JNum(1, 1), JNum(6, 1), JNum(7, 1),
     JNum(5, 2), JStr(<<"3">>), JBool(TRUE)}
JsonPoints ==
    {JNull, JNum(1, 1), JArr(<<>>)}
    \cup {JObj([x |-> x, y |-> y, rotation |-> r]) :
              x \in JsonXs, y \in JsonYs, r \in JsonRotations}
JsonPointLists ==
    {JUndefined, JStr(<<"x">>), JArr(<<>>)}
    \cup {JArr(<<pt>>) : pt \in JsonPoints}
    \cup {JArr(<<PointToJson(P1), pt>>) : pt \in JsonPoints}
JsonDocs ==
    {JNull, JNum(5, 1), JStr(<<"b">>), JArr(<<>>)}
    \cup {JObj([version |-> v, name |-> n, mode |-> m, points |-> ps,
                undoStack |-> u, redoStack |-> JUndefined]) :
              v \in JsonVersions, n \in JsonNames, m \in JsonModes,
              ps \in JsonPointLists, u \in JsonStacks}

\* The application as constructed, with a file chosen whose text parses to
\* the JSON value lastOp.doc.
InitValidate ==
    /\ maxUndoStackSize = MaxM
    /\ autoTrimUndoStack = TRUE
    /\ Constructed
    /\ disk = <<>>
    /\ since = <<>>
    /\ \E data \in JsonDocs :
           lastOp = [op |-> "file", ret |-> FALSE, evicted |-> FALSE,
                     doc |-> data]
    /\ origin = "none"
    /\ everEvicted = FALSE
    /\ run = NoRun

\* reader.onload: the text parsed to data; the promise resolves if
\* validateSessionData returns and rejects if it throws.
ReaderOnload(data) ==
    /\ lastOp.op = "file"
    /\ lastOp' = [op |-> "validate", ret |-> validateSessionData(data),
                  evicted |-> FALSE, doc |-> data]
    /\ UNCHANGED <<configVars, restVars, sessionVars, drawVars, filterVars, appVars,
                   origin, run, everEvicted>>

NextValidate == ReaderOnload(lastOp.doc)

ValidateSpec == InitValidate /\ [][NextValidate]_vars

(***************************************************************************)
(* Combining session files (lines 2659-2897).  handleCombineFiles awaits   *)
(* one file read after another; a call that is waiting is an entry of      *)
(* combining: i, the index of the file being read (from 1), loadedSessions *)
(* so far, and the file handed to loadFromFile.                            *)
(***************************************************************************)
\* Files the operator can pick: name, whether within maxFileSize, and what
\* reading the file produces.
FileOf(n, d) ==
    [name |-> n, size |-> "ok",
     result |-> [outcome |-> "text", json |-> "object", data |-> d]]

FileA ==
    FileOf("A", [name |-> DocName, mode |-> "simpleHeatmap", points |-> <<P1>>,
                 undoStack |-> <<AddAction(P1)>>,
                 redoStack |-> <<AddAction(P2)>>])
FileB ==
    FileOf("B", [name |-> DocName, mode |-> "simpleHeatmap",
                 points |-> <<P2, P1, P1>>,
                 undoStack |-> <<AddAction(P2), AddAction(P1), AddAction(P1)>>,
                 redoStack |-> <<>>])
FileC ==
    FileOf("C", [name |-> DocName, mode |-> "heatmapCharting",
                 points |-> <<LNew>>,
                 undoStack |-> <<AddAction(LNew)>>, redoStack |-> <<>>])
FileX == [name |-> "X", size |-> "ok",
          result |-> [outcome |-> "text", json |-> "invalid"]]
FileL == [name |-> "L", size |-> "tooLarge",
          result |-> [outcome |-> "error"]]

Files == {FileA, FileB, FileC, FileX, FileL}

\* The file list and the number of waiting calls the model allows.
MaxFiles == 2
MaxCombining == 1

\* Lines 2803-2808: the points of the sessions, one session after another.
RECURSIVE combinePoints(_)
combinePoints(sessions) ==
    IF sessions = <<>> THEN <<>>
    ELSE (IF "points" \in DOMAIN Head(sessions)
          THEN Head(sessions).points ELSE <<>>)
         \o combinePoints(Tail(sessions))

\* Lines 2791-2800: the index of the first session whose mode is not the
\* selected mode (or not the first session's), 0 if there is none.
firstMismatch(sessions, m) ==
    LET bad == {i \in 1..Len(sessions) :
                   \/ sessions[i].mode # m
                   \/ sessions[i].mode # sessions[1].mode}
    IN  IF bad = {} THEN 0 ELSE CHOOSE i \in bad : \A j \in bad : i <= j

\* History of a call of handleCombineFiles that ended: loadedSessions and the
\* file name its alert gave ("none" if it gave none).
CombineOp(o, r, sessions, named) ==
    Op(o, r, FALSE) @@ [loaded |-> sessions, named |-> named]

\* showCombineModeModal is only display; handleCombineModeConfirm (lines
\* 2666-2686).
HandleCombineModeConfirm(m) ==
    /\ combineMode' = m
    /\ combineFileList' = <<>>
    /\ screen' = "combineFilesModal"
    /\ lastOp' = Op("combineMode", TRUE, FALSE)
    /\ UNCHANGED <<configVars, sessionVars, drawVars, filterVars, geometryMode,
                   hasUnsavedChanges, pendingLoads, migrationInfo,
                   combinedData, combining, disk, since, origin, run, everEvicted>>

\* handleCombineFilesSelect (lines 2691-2718), one file picked.
HandleCombineFilesSelect(file) ==
    LET exists == \E i \in 1..Len(combineFileList) :
                      /\ combineFileList[i].name = file.name
                      /\ combineFileList[i].size = file.size
    IN  /\ Len(combineFileList) < MaxFiles
        /\ combineFileList' = IF file.size = "tooLarge" \/ exists
                              THEN combineFileList
                              ELSE Append(combineFileList, file)
        /\ lastOp' = Op("combineSelect", file.size # "tooLarge" /\ ~exists, FALSE)
        /\ UNCHANGED <<configVars, sessionVars, drawVars, filterVars, appVars,
                       migrationInfo, combineMode, combinedData, combining,
                       disk, since, origin, run, everEvicted>>

\* The list without the entries at the indices in selected.
RemoveAt(list, selected) ==
    LET keep == {i \in 1..Len(list) : i \notin selected}
        RECURSIVE build(_)
        build(i) == IF i > Len(list) THEN <<>>
                    ELSE (IF i \in keep THEN <<list[i]>> ELSE <<>>) \o build(i + 1)
    IN  build(1)

\* handleRemoveSelected (lines 2753-2769): selected is the set of the
\* data-index values of the items the operator marked.
HandleRemoveSelected(selected) ==
    /\ selected # {}
    /\ selected \subseteq 1..Len(combineFileList)
    /\ combineFileList' = RemoveAt(combineFileList, selected)
    /\ lastOp' = Op("combineRemove", TRUE, FALSE)
    /\ UNCHANGED <<configVars, sessionVars, drawVars, filterVars, appVars,
                   migrationInfo, combineMode, combinedData, combining,
                   disk, since, origin, run, everEvicted>>

\* cancelCombineFiles (lines 2889-2897).
CancelCombineFiles ==
    /\ combineFileList' = <<>>
    /\ screen' = "combineModeModal"
    /\ lastOp' = Op("combineCancel", TRUE, FALSE)
    /\ UNCHANGED <<configVars, sessionVars, drawVars, filterVars, geometryMode,
                   hasUnsavedChanges, pendingLoads, migrationInfo, combineMode,
                   combinedData, combining, disk, since, origin, run, everEvicted>>

\* History of a call of handleCombineFiles: the file list and the combine
\* mode as they were when the operator clicked Combine.
Confirmed == [list |-> combineFileList, mode |-> combineMode]

\* handleCombineFiles up to its first await (lines 2774-2785).  The waiting
\* call keeps i, loadedSessions and the file being read; confirmed is history.
HandleCombineFiles ==
    /\ IF Len(combineFileList) < 2
       THEN /\ combining' = combining
            /\ lastOp' = CombineOp("combineTooFew", FALSE, <<>>, "none")
                          @@ [confirmed |-> Confirmed]
       ELSE /\ Len(combining) < MaxCombining
            /\ combining' = Append(combining,
                                   [i |-> 1, loadedSessions |-> <<>>,
                                    file |-> combineFileList[1],
                                    confirmed |-> Confirmed])
            /\ lastOp' = Op("combineBegin", TRUE, FALSE)
    /\ UNCHANGED <<configVars, sessionVars, drawVars, filterVars, appVars,
                   migrationInfo, combineMode, combinedData, combineFileList,
                   disk, since, origin, run, everEvicted>>

\* handleCombineFiles from the await of line 2785 on, for the k-th waiting
\* call: the read finishes, and the call either awaits the next file or runs
\* to its end (lines 2786-2844); proceed is the operator's answer to confirm().
HandleCombineFilesResume(k, proceed) ==
    LET c == combining[k]
        others == RemoveAt(combining, {k})
        resolved == c.file.size = "ok" /\ Resolves(c.file.result)
        sessions == Append(c.loadedSessions, c.file.result.data)
        more == c.i + 1 <= Len(combineFileList)
        bad == firstMismatch(sessions, combineMode)
        \* this.combineFileList[i].name of lines 2793 and 2797
        nameThrows == bad > Len(combineFileList)
        combinedPoints == combinePoints(sessions)
        declined == Len(combinedPoints) > maxPointCount /\ ~proceed
        stores == resolved /\ ~more /\ bad = 0 /\ ~declined
        Ended(o, r, loaded, named) ==
            CombineOp(o, r, loaded, named) @@ [confirmed |-> c.confirmed]
    IN  /\ k \in 1..Len(combining)
        /\ combining' =
               IF resolved /\ more
               THEN [combining EXCEPT ![k] =
                        [c EXCEPT !.i = c.i + 1, !.loadedSessions = sessions,
                                  !.file = combineFileList[c.i + 1]]]
               ELSE others
        /\ combinedData' =
               IF stores
               THEN <<[mode |-> sessions[1].mode, points |-> combinedPoints,
                       undoStack |-> <<>>, redoStack |-> <<>>]>>
               ELSE combinedData
        /\ screen' = IF stores THEN "saveCombinedModal" ELSE screen
        /\ lastOp' =
               IF ~resolved
               THEN Ended("combineRejected", FALSE, c.loadedSessions, "none")
               ELSE IF more THEN Op("combineNext", TRUE, FALSE)
               ELSE IF bad # 0 /\ nameThrows
               THEN Ended("combineThrew", FALSE, sessions, "none")
               ELSE IF bad # 0
               THEN Ended("combineMismatch", FALSE, sessions,
                          combineFileList[bad].name)
               ELSE IF declined
               THEN Ended("combineDeclined", FALSE, sessions, "none")
               ELSE Ended("combineStored", TRUE, sessions, "none")
        /\ UNCHANGED <<configVars, sessionVars, drawVars, filterVars,
                       geometryMode, hasUnsavedChanges, pendingLoads,
                       migrationInfo, combineMode, combineFileList, disk,
                       since, origin, run, everEvicted>>

\* The names the operator types for a combined heatmap.
CombinedRawNames == {<<" ">>, <<" ", "a", "/">>}
CombinedSessionName ==
    <<"C", "o", "m", "b", "i", "n", "e", "d", " ",
      "S", "e", "s", "s", "i", "o", "n">>

\* handleSaveCombined (lines 2850-2884).  The document handed to saveToFile
\* is kept in lastOp; no specification loads a combined heatmap back.
HandleSaveCombined(rawName) ==
    LET trimmed == TrimRight(TrimLeft(rawName))
        n == IF trimmed # <<>> THEN trimmed ELSE CombinedSessionName
        sessionData ==
            [name |-> n, mode |-> combinedData[1].mode,
             points |-> combinedData[1].points, undoStack |-> <<>>,
             redoStack |-> <<>>, savedAt |-> Now]
    IN  /\ IF combinedData = <<>>
           THEN /\ lastOp' = Op("saveCombinedNothing", FALSE, FALSE)
                /\ UNCHANGED <<combinedData, combineMode, screen>>
           ELSE /\ combinedData' = <<>>
                /\ combineMode' = "null"
                /\ screen' = "sessionModal"
                /\ lastOp' = SaveOp("saveCombined", sessionData)
        /\ UNCHANGED <<configVars, sessionVars, drawVars, filterVars,
                       geometryMode, hasUnsavedChanges, pendingLoads,
                       migrationInfo, combineFileList, combining, disk, since,
                       origin, run, everEvicted>>

InitCombine ==
    /\ Shipped
    /\ disk = <<>>
    /\ since = <<>>

NextCombine ==
    \/ \E m \in validModes : HandleCombineModeConfirm(m)
    \/ \E f \in Files : HandleCombineFilesSelect(f)
    \/ \E sel \in SUBSET (1..MaxFiles) : HandleRemoveSelected(sel)
    \/ CancelCombineFiles
    \/ HandleCombineFiles
    \/ \E k \in 1..MaxCombining, ok \in BOOLEAN : HandleCombineFilesResume(k, ok)
    \/ \E n \in CombinedRawNames : HandleSaveCombined(n)

CombineSpec == InitCombine /\ [][NextCombine]_vars

(***************************************************************************)
(* The specification of the codec: a session file is at hand, written by   *)
(* an earlier version of the application, by this one or by hand; the      *)
(* operator loads it, undoes and redoes, saves, and loads what was saved.  *)
(***************************************************************************)
\* A charted point with or without its jerseyNumber and team fields.
WithFields(p, j, t) ==
    LET pj == IF j = "absent" THEN p
              ELSE p @@ [jerseyNumber |-> IF j = "null" THEN NullJersey
                                          ELSE <<"7">>]
    IN  IF t = "absent" THEN pj
        ELSE pj @@ [team |-> IF t = "null" THEN "null" ELSE "us"]

ChartedPoints ==
    {WithFields(LOld, j, t) : j \in {"absent", "null", "set"},
                              t \in {"absent", "null", "set"}}

\* Names a file may hold: plain, with a path separator, longer than
\* nameMaxLength.
CodecNames == {<<"b">>, <<"a", "/">>, [i \in 1..(nameMaxLength + 1) |-> "a"]}

CodecPointLists ==
    {<<>>} \cup {<<p>> : p \in ChartedPoints \cup {P1}}
    \cup {<<p, LOld>> : p \in {P1, LNew}}

CodecUndoStacks ==
    {<<>>,
     <<AddAction(LNew), ClearAction(<<LOld, WithFields(LOld, "null", "absent")>>)>>}

CodecRedoStacks == {<<>>, <<ClearAction(<<WithFields(LOld, "absent", "set")>>)>>}

CodecDocs ==
    {[name |-> n, mode |-> "heatmapCharting", points |-> ps,
      undoStack |-> u, redoStack |-> r] :
         n \in CodecNames, ps \in CodecPointLists, u \in CodecUndoStacks,
         r \in CodecRedoStacks}

\* What the FileReader produces for the file at hand.
DiskResult == [outcome |-> "text", json |-> "object", data |-> disk[1]]

InitCodec ==
    /\ Shipped
    /\ disk \in {<<d>> : d \in CodecDocs}
    /\ since = <<>>

\* The name typed for a new session in this specification.
CodecRawNames == {<<" ", "a", "/">>}

NextCodec ==
    \/ \E n \in CodecRawNames, m \in {"heatmapCharting"} : StartNewSession(n, m)
    \/ \E v \in BOOLEAN : LoadSession("ok", v)
    \/ \E v \in BOOLEAN, ok \in BOOLEAN :
           disk # <<>> /\ LoadSessionResume(v, DiskResult, ok)
    \/ KeyboardUndo
    \/ KeyboardRedo
    \/ SaveSession

CodecSpec == InitCodec /\ [][NextCodec]_vars

(***************************************************************************)
(* Properties of the undo/redo ledger.                                     *)
(***************************************************************************)

\* C1: in a session started new and driven by addPoint, clearAllPoints, undo
\* and redo, whenever undoStack is not empty, undo() followed at once by
\* redo() both return true and, provided neither call evicted an entry, leave
\* points, undoStack and redoStack as they were before the undo.
C1_UndoThenRedoIsIdentity ==
    (origin = "new" /\ undoStack # <<>>) =>
        LET u == undo(Ledger)
            r == redo(u.s)
            noEviction == /\ Len(u.s.redoStack) = Len(redoStack) + 1
                          /\ Len(r.s.undoStack) = Len(u.s.undoStack) + 1
        IN  /\ u.ret
            /\ r.ret
            /\ noEviction => r.s = Ledger

\* A new session in which undo() has just succeeded on a ledger with points,
\* and the redo() that follows puts the popped action back.
C1_Witness ==
    /\ origin = "new"
    /\ lastOp.op = "undo" /\ lastOp.ret /\ ~lastOp.evicted
    /\ points # <<>>
    /\ redo(Ledger).ret
    /\ redo(Ledger).s.redoStack = Pop(redoStack)

\* C2: undo() called right after addPoint(p) returns true and leaves points
\* equal to what it was before that addPoint, whatever the bound M: in every
\* state, for every point a click can add, and along every run of a new
\* session made of addPoint calls followed by one undo.
C2_UndoAfterAddRestoresPoints ==
    /\ \A cx \in ClickXs, cy \in ClickYs :
           LET p == [x |-> cx, y |-> cy, rotation |-> currentRotation]
               u == undo(addPoint(Ledger, p))
           IN  u.ret /\ u.s.points = points
    /\ (run.phase = "undos" /\ run.undos = 1) => points = Pop(run.added)

\* A new session in which two points were added and the one undo() that
\* followed took the second away.
C2_Witness ==
    /\ run.phase = "undos" /\ run.undos = 1
    /\ lastOp.op = "undo" /\ lastOp.ret
    /\ Len(run.added) = 2
    /\ points = <<run.added[1]>>

\* The stack new keeps the most recent entries of full, in order, and no more
\* than the bound.
KeptMostRecent(new, full) ==
    /\ Len(new) = Min(maxUndoStackSize, Len(full))
    /\ IsSuffix(new, full)
    /\ Last(new) = Last(full)

\* C3: with auto-trim on and M > 0, every operation that pushes onto a stack
\* (addPoint, an effective clearAllPoints and a successful redo onto
\* undoStack, a successful undo onto redoStack) leaves that stack no longer
\* than M, with the pushed entry on top and the most recent entries retained
\* in order; after N > M consecutive addPoint calls undoStack is exactly the
\* Add actions of the last M points.
C3_PushKeepsMostRecent ==
    [][TrimOn =>
         /\ lastOp'.op = "add" =>
                KeptMostRecent(undoStack',
                               Append(undoStack, AddAction(Last(points'))))
         /\ (lastOp'.op = "clear" /\ lastOp'.ret) =>
                KeptMostRecent(undoStack',
                               Append(undoStack, ClearAction(points)))
         /\ (lastOp'.op = "redo" /\ lastOp'.ret) =>
                KeptMostRecent(undoStack',
                               Append(undoStack, Last(redoStack)))
         /\ (lastOp'.op = "undo" /\ lastOp'.ret) =>
                KeptMostRecent(redoStack',
                               Append(redoStack, Last(undoStack)))
         /\ (run'.phase = "adds" /\ Len(run'.added) > maxUndoStackSize) =>
                undoStack' =
                    [i \in 1..maxUndoStackSize |->
                         AddAction(run'.added[Len(run'.added)
                                              - maxUndoStackSize + i])]
      ]_vars

\* A new session with auto-trim on in which more points were added than the
\* bound allows actions: the last addPoint evicted the oldest Add action.
C3_Witness ==
    /\ TrimOn
    /\ run.phase = "adds"
    /\ Len(run.added) > maxUndoStackSize
    /\ lastOp.op = "add" /\ lastOp.evicted
    /\ Len(undoStack) = maxUndoStackSize

\* C4: with auto-trim on and M > 0, in every reachable state (a new session,
\* a loaded document, any ledger operations afterwards) neither stack is
\* longer than M.
C4_StacksWithinBound ==
    TrimOn => /\ Len(undoStack) <= maxUndoStackSize
              /\ Len(redoStack) <= maxUndoStackSize

\* C5: with auto-trim on, after N > M consecutive addPoint calls in a new
\* session, undo() repeated until it returns false succeeds exactly M times
\* and leaves the first N - M points; while only undo and redo follow, those
\* points stay a prefix of points.
C5_EvictionIsPermanent ==
    LET N == Len(run.added)
        M == maxUndoStackSize
    IN  (TrimOn /\ N > M) =>
            /\ run.phase = "undos" =>
                   /\ run.undos <= M
                   /\ (undoStack = <<>>) <=> (run.undos = M)
                   /\ undoStack = <<>> => points = SubSeq(run.added, 1, N - M)
            /\ run.phase \in {"undos", "undoredo"} =>
                   IsPrefix(SubSeq(run.added, 1, N - M), points)

\* More points were added than the bound, every undoable action has been
\* undone, and the points whose actions were evicted are still there.
C5_Witness ==
    /\ TrimOn
    /\ run.phase = "undos"
    /\ Len(run.added) > maxUndoStackSize
    /\ run.undos = maxUndoStackSize
    /\ undoStack = <<>>
    /\ ~undo(Ledger).ret
    /\ points # <<>>

\* C6 as stated: every addPoint and every effective clearAllPoints leaves
\* redoStack empty, and only undo and redo give redoStack a non-empty value.
C6_OnlyUndoRedoFillRedoStack ==
    [][/\ lastOp'.op = "add" => redoStack' = <<>>
       /\ (lastOp'.op = "clear" /\ points # <<>>) => redoStack' = <<>>
       /\ (redoStack' # redoStack /\ redoStack' # <<>>) =>
              lastOp'.op \in {"undo", "redo"}
      ]_vars

\* C6, amended: every addPoint and every effective clearAllPoints leaves
\* redoStack empty, and only undo, redo and load (which installs the
\* document's redoStack) give redoStack a non-empty value.
C6_OnlyUndoRedoLoadFillRedoStack ==
    [][/\ lastOp'.op = "add" => redoStack' = <<>>
       /\ (lastOp'.op = "clear" /\ points # <<>>) => redoStack' = <<>>
       /\ (redoStack' # redoStack /\ redoStack' # <<>>) =>
              lastOp'.op \in {"undo", "redo", "loadThrew", "loaded"}
      ]_vars

\* A point has just been added to a ledger that load filled: the redo entries
\* the document brought are gone.
C6_Witness ==
    /\ origin = "loaded"
    /\ lastOp.op = "add"
    /\ redoStack = <<>>
    /\ undoStack # <<>>
    /\ ~redo(Ledger).ret

\* C7: clearAllPoints on non-empty points empties points and pushes one Clear
\* action holding the sequence as it was; whenever a Clear action is on top
\* of undoStack, undo restores points to exactly the sequence it holds, and
\* redoing it empties points again.
C7_ClearIsUndoable ==
    [][/\ (lastOp'.op = "clear" /\ points # <<>>) =>
              /\ points' = <<>>
              /\ lastOp'.ret
              /\ Last(undoStack') = ClearAction(points)
              /\ ~lastOp'.evicted => undoStack' =
                                         Append(undoStack, ClearAction(points))
              /\ undo(Ledger').ret
              /\ undo(Ledger').s.points = points
              /\ redo(undo(Ledger').s).ret
              /\ redo(undo(Ledger').s).s.points = <<>>
       /\ (lastOp'.op = "undo" /\ lastOp'.ret
           /\ Last(undoStack).action = "clear") =>
              /\ points' = Last(undoStack).points
              /\ Last(redoStack') = Last(undoStack)
       /\ (lastOp'.op = "redo" /\ lastOp'.ret
           /\ Last(redoStack).action = "clear") =>
              /\ points' = <<>>
              /\ Last(undoStack') = Last(redoStack)
      ]_vars

\* In a new session a Clear action of two points has been undone: the two
\* points are back and the Clear action is on top of redoStack.
C7_Witness ==
    /\ origin = "new"
    /\ lastOp.op = "undo" /\ lastOp.ret
    /\ redoStack # <<>>
    /\ Last(redoStack).action = "clear"
    /\ Len(Last(redoStack).points) = 2
    /\ points = Last(redoStack).points

\* C8: undo() on an empty undoStack returns false and changes nothing, redo()
\* on an empty redoStack returns false and changes nothing, and
\* clearAllPoints on empty points pushes nothing and leaves redoStack as it
\* was.
C8_DegenerateOperationsAreNoOps ==
    [][/\ (lastOp'.op = "undo" /\ undoStack = <<>>) =>
              ~lastOp'.ret /\ Ledger' = Ledger
       /\ (lastOp'.op = "redo" /\ redoStack = <<>>) =>
              ~lastOp'.ret /\ Ledger' = Ledger
       /\ (lastOp'.op = "clear" /\ points = <<>>) =>
              ~lastOp'.ret /\ Ledger' = Ledger
      ]_vars

\* clearAllPoints has just run on empty points in a new session and the redo
\* entry that was there is still there.
C8_Witness ==
    /\ origin = "new"
    /\ lastOp.op = "clear" /\ ~lastOp.ret
    /\ points = <<>>
    /\ undoStack = <<>>
    /\ redoStack # <<>>

(***************************************************************************)
(* Properties of loadSession.                                              *)
(***************************************************************************)

\* C9: whenever loadSession does not complete successfully (no file, a file
\* too large, a read error, invalid JSON, a document validation rejects, a
\* declined warning, an exception while the document is committed), the
\* session's name, mode, points, undoStack, redoStack and isViewOnly are what
\* they were before.
C9_FailedLoadLeavesSession ==
    [][lastOp'.op \in {"loadRejected", "loadDeclined", "loadThrew"} =>
           Session' = Session
      ]_vars

\* C10: loadSession on a file that holds a document validation accepts (the
\* warning, if any, accepted) completes without error, leaves the session
\* equal to the migrated document with isViewOnly the operator's choice, both
\* filter sets empty, hasUnsavedChanges false and the geometry rebuilt for
\* the document's mode.
C10_LoadInstallsDocument ==
    [][lastOp'.op \in {"loaded", "loadThrew"} =>
           /\ lastOp'.op = "loaded"
           /\ \E d \in ValidDocs :
                  /\ name' = d.name
                  /\ mode' = d.mode
                  /\ points' = migratePoints(d.points)
                  /\ undoStack' = migrateStack(IF "undoStack" \in DOMAIN d
                                               THEN d.undoStack ELSE <<>>)
                  /\ redoStack' = migrateStack(IF "redoStack" \in DOMAIN d
                                               THEN d.redoStack ELSE <<>>)
                  /\ geometryMode' = d.mode
           /\ \E v \in BOOLEAN :
                  pendingLoads'[v] < pendingLoads[v] /\ isViewOnly' = v
           /\ activeJerseyNumberFilters' = {}
           /\ activeRotationFilters' = {}
           /\ hasUnsavedChanges' = FALSE
      ]_vars

\* C11: while a file read of loadSession is pending, no add, clear, undo or
\* redo changes the ledger of the live session, and a load commits only when
\* no other load is pending.
C11_NoMutationWhileLoadPending ==
    [][/\ (PendingCount > 0 /\ lastOp'.op \in {"add", "clear", "undo", "redo"})
              => Ledger' = Ledger
       /\ lastOp'.op \in {"loaded", "loadThrew"} => PendingCount = 1
      ]_vars

(***************************************************************************)
(* Properties of the filter engine.                                        *)
(***************************************************************************)

\* C12: redrawAll draws a point if and only if (the jersey filter set is
\* empty or holds the point's jersey token) and (the rotation filter set is
\* empty or holds the point's rotation token), the jersey token being the
\* jerseyNumber of a point with a line and a non-null jerseyNumber and "-"
\* otherwise, the rotation token the rotation when non-null and "-"
\* otherwise; the points drawn are drawn in points order.  Checked for the
\* points of every reachable state and every pair of filter sets.
C12_DrawnIffPassesBothFilters ==
    \A jf \in SUBSET {<<"7">>, <<"-">>}, rf \in SUBSET {"1", "2", "4", "-"} :
        LET jerseyToken(p) ==
                IF "line" \in DOMAIN p /\ "jerseyNumber" \in DOMAIN p
                   /\ p.jerseyNumber # <<"null">>
                THEN p.jerseyNumber ELSE <<"-">>
            rotationToken(p) ==
                IF "rotation" \in DOMAIN p /\ p.rotation # "null"
                THEN p.rotation ELSE "-"
            visible(p) == /\ (jf = {} \/ jerseyToken(p) \in jf)
                          /\ (rf = {} \/ rotationToken(p) \in rf)
        IN  redrawAll(points, jf, rf) = SelectSeq(points, visible)

\* Two charted points, both filters active: redrawAll draws the second and
\* skips the first.
C12_Witness ==
    /\ Len(points) = 2
    /\ activeJerseyNumberFilters # {}
    /\ activeRotationFilters # {}
    /\ redrawAll(points, activeJerseyNumberFilters, activeRotationFilters)
           = <<points[2]>>
    /\ points[1] # points[2]

\* C13: when the operator sets the current rotation to r, the rotation filter
\* set afterwards is the old set with r added if the old set was non-empty,
\* and is still empty if it was empty; no member is removed.
C13_StickyAutoInclusion ==
    [][lastOp'.op = "setRotation" =>
           /\ activeRotationFilters' =
                  (IF activeRotationFilters = {} THEN {}
                   ELSE activeRotationFilters \cup {currentRotation'})
           /\ activeRotationFilters \subseteq activeRotationFilters'
      ]_vars

\* The current rotation has just been set to 4 and the filter set, which
\* held rotation 2, now holds 2 and 4.
C13_Witness ==
    /\ lastOp.op = "setRotation"
    /\ currentRotation = "4"
    /\ activeRotationFilters = {"2", "4"}

\* C14: right after canvas input has added a point (a click in simple mode,
\* a mouseup in charting mode, whatever was handled since the mousedown), the
\* rotation filter set is empty or holds the new point's rotation.
C14_NewPointPassesRotationFilter ==
    [][lastOp'.op = "add" =>
           \/ activeRotationFilters' = {}
           \/ Last(points').rotation \in activeRotationFilters'
      ]_vars

\* C15: one toggle of a filter adds the token if the set lacks it and removes
\* it if the set has it, leaving the other members alone, and toggling the
\* same token again gives back the set as it was.
C15_ToggleIsInvolution ==
    [][/\ lastOp'.op = "toggleJerseyFilter" =>
              \E t \in JerseyButtons(points) :
                  /\ activeJerseyNumberFilters' =
                         (IF t \in activeJerseyNumberFilters
                          THEN activeJerseyNumberFilters \ {t}
                          ELSE activeJerseyNumberFilters \cup {t})
                  /\ toggleFilter(activeJerseyNumberFilters', t)
                         = activeJerseyNumberFilters
       /\ lastOp'.op = "toggleRotationFilter" =>
              \E r \in RotationButtons :
                  /\ activeRotationFilters' =
                         (IF r \in activeRotationFilters
                          THEN activeRotationFilters \ {r}
                          ELSE activeRotationFilters \cup {r})
                  /\ toggleFilter(activeRotationFilters', r)
                         = activeRotationFilters
      ]_vars

\* A jersey filter button has just been clicked and the jersey filter set is
\* empty: the click removed the token an earlier click had added.
C15_Witness ==
    /\ lastOp.op = "toggleJerseyFilter"
    /\ activeJerseyNumberFilters = {}
    /\ JerseyButtons(points) # {}

\* C16: toggling or clearing the jersey filter leaves the rotation filter set
\* unchanged; toggling or clearing the rotation filter, and the sticky add of
\* a rotation assignment or of canvas input, leave the jersey filter set
\* unchanged; each clear empties its own set; no filter operation changes
\* points, undoStack or redoStack.
C16_FiltersAreIndependent ==
    [][/\ lastOp'.op \in {"toggleJerseyFilter", "clearJerseyFilters"} =>
              activeRotationFilters' = activeRotationFilters
       /\ lastOp'.op \in {"toggleRotationFilter", "clearRotationFilters",
                          "setRotation", "add", "other"} =>
              activeJerseyNumberFilters' = activeJerseyNumberFilters
       /\ lastOp'.op = "clearJerseyFilters" => activeJerseyNumberFilters' = {}
       /\ lastOp'.op = "clearRotationFilters" => activeRotationFilters' = {}
       /\ lastOp'.op \in {"toggleJerseyFilter", "clearJerseyFilters",
                          "toggleRotationFilter", "clearRotationFilters",
                          "setRotation"} => Ledger' = Ledger
      ]_vars

\* The rotation filter has just been cleared while a jersey filter is active
\* and the ledger holds a point.
C16_Witness ==
    /\ lastOp.op = "clearRotationFilters"
    /\ activeRotationFilters = {}
    /\ activeJerseyNumberFilters # {}
    /\ points # <<>>
    /\ undoStack # <<>>

(***************************************************************************)
(* Properties of validation.                                               *)
(***************************************************************************)

\* C17: validation rejects every document that is not an object, that has a
\* missing, empty or non-string name, a mode outside the two valid modes,
\* points that is not a sequence, or a point that is not an object or lacks a
\* numeric x or y; and it accepts every document that is an object with a
\* non-empty string name, a valid mode, points a sequence of objects with
\* numeric x and y and a rotation absent, null or an integer in 1..6, and
\* undoStack and redoStack, where present, sequences.
C17_ValidateRejectsAndAccepts ==
    lastOp.op = "validate" =>
        LET doc == lastOp.doc
            has(j, f) == j.k = "obj" /\ f \in DOMAIN j.o
            isString(j, f) == has(j, f) /\ j.o[f].k = "str"
            isNumber(j, f) == has(j, f) /\ j.o[f].k = "num"
            nameOk == isString(doc, "name") /\ doc.o.name.s # <<>>
            modeOk == /\ isString(doc, "mode")
                      /\ doc.o.mode.s \in {<<"simpleHeatmap">>,
                                           <<"heatmapCharting">>}
            pointsIsSeq == has(doc, "points") /\ doc.o.points.k = "arr"
            pointOk(pt) == pt.k = "obj" /\ isNumber(pt, "x") /\ isNumber(pt, "y")
            rotationOk(pt) ==
                \/ ~has(pt, "rotation")
                \/ pt.o.rotation.k = "null"
                \/ /\ pt.o.rotation.k = "num"
                   /\ pt.o.rotation.d = 1
                   /\ pt.o.rotation.n \in 1..6
            stackOk(f) == has(doc, f) => doc.o[f].k = "arr"
            mustReject ==
                \/ doc.k # "obj"
                \/ ~nameOk
                \/ ~modeOk
                \/ ~pointsIsSeq
                \/ \E i \in 1..Len(doc.o.points.a) : ~pointOk(doc.o.points.a[i])
            mustAccept ==
                /\ doc.k = "obj" /\ nameOk /\ modeOk /\ pointsIsSeq
                /\ \A i \in 1..Len(doc.o.points.a) :
                       pointOk(doc.o.points.a[i]) /\ rotationOk(doc.o.points.a[i])
                /\ stackOk("undoStack") /\ stackOk("redoStack")
        IN  /\ mustReject => ~lastOp.ret
            /\ mustAccept => lastOp.ret

\* A document with a valid name and points but a mode outside the valid
\* modes has been rejected.
C17_Witness ==
    /\ lastOp.op = "validate"
    /\ ~lastOp.ret
    /\ lastOp.doc.k = "obj"
    /\ Get(lastOp.doc, "name") = JStr(<<"b">>)
    /\ Get(lastOp.doc, "mode") = JStr(<<"other">>)
    /\ Get(lastOp.doc, "points") = JArr(<<PointToJson(P1)>>)

\* C18: every document with a point whose rotation is present, not null, and
\* not an integer between 1 and 6 is rejected.
C18_NonIntegerRotationRejected ==
    lastOp.op = "validate" =>
        LET doc == lastOp.doc
            pts == Get(doc, "points")
            badRotation(pt) ==
                /\ pt.k = "obj" /\ "rotation" \in DOMAIN pt.o
                /\ pt.o.rotation.k # "null"
                /\ ~(/\ pt.o.rotation.k = "num"
                     /\ pt.o.rotation.d = 1
                     /\ pt.o.rotation.n \in 1..6)
        IN  (pts.k = "arr" /\ \E i \in 1..Len(pts.a) : badRotation(pts.a[i]))
                => ~lastOp.ret

\* C19: the outcome of validation is the same for a document and for the
\* document with its version removed or replaced, and for the document with
\* the numeric coordinates of its points replaced by numbers inside or
\* outside [0, 2 * canvasSize]; checkVersionCompatibility returns true for
\* every version.
C19_VersionAndMagnitudeIgnored ==
    lastOp.op = "validate" =>
        LET doc == lastOp.doc
            withVersion(v) ==
                JObj([f \in DOMAIN doc.o \cup {"version"} |->
                         IF f = "version" THEN v ELSE doc.o[f]])
            moved(pt, c) ==
                IF pt.k # "obj" THEN pt
                ELSE [pt EXCEPT !.o =
                         [f \in DOMAIN pt.o |->
                              IF f \in {"x", "y"} /\ pt.o[f].k = "num"
                              THEN c ELSE pt.o[f]]]
            withCoordinates(c) ==
                IF Get(doc, "points").k # "arr" THEN doc
                ELSE [doc EXCEPT !.o.points.a =
                         [i \in 1..Len(doc.o.points.a) |->
                              moved(doc.o.points.a[i], c)]]
        IN  /\ \A v \in JsonVersions \cup {JStr(<<"9">>), JStr(<<>>)} :
                   /\ checkVersionCompatibility(v)
                   /\ doc.k = "obj" =>
                          validateSessionData(withVersion(v)) = lastOp.ret
            /\ doc.k = "obj" =>
                   \A c \in {JNum(0 - 1, 1), JNum(0, 1), JNum(2 * canvasSize, 1),
                             JNum(2 * canvasSize + 1, 1), JNum(1, 2)} :
                       validateSessionData(withCoordinates(c)) = lastOp.ret

\* A document without a version whose point lies far outside the canvas has
\* been accepted.
C19_Witness ==
    /\ lastOp.op = "validate"
    /\ lastOp.ret
    /\ Get(lastOp.doc, "version") = JUndefined
    /\ Get(lastOp.doc, "points").k = "arr"
    /\ \E i \in 1..Len(Get(lastOp.doc, "points").a) :
           Get(Get(lastOp.doc, "points").a[i], "x") = JNum(5000, 1)

(***************************************************************************)
(* Properties of migration.                                                *)
(***************************************************************************)

\* C20: after the migration pass of a load, every point with a line in
\* points, in the point of every Add action and in the snapshot of every
\* Clear action of both stacks has its own jerseyNumber and team (null where
\* the document had none); every field the document had keeps its value, and
\* a point without a line has the fields it had.
C20_MigrationCompletesChartedPoints ==
    [][lastOp'.op \in {"loadThrew", "loaded"} =>
           LET migratedFrom(old, new) ==
                   /\ \A f \in DOMAIN old : f \in DOMAIN new /\ new[f] = old[f]
                   /\ DOMAIN new =
                          (IF "line" \in DOMAIN old
                           THEN DOMAIN old \cup {"jerseyNumber", "team"}
                           ELSE DOMAIN old)
                   /\ ("jerseyNumber" \in DOMAIN new \ DOMAIN old)
                          => new.jerseyNumber = <<"null">>
                   /\ ("team" \in DOMAIN new \ DOMAIN old) => new.team = "null"
               allFrom(olds, news) ==
                   /\ Len(news) = Len(olds)
                   /\ \A i \in 1..Len(olds) : migratedFrom(olds[i], news[i])
               stackFrom(olds, news) ==
                   /\ Len(news) = Len(olds)
                   /\ \A i \in 1..Len(olds) :
                          /\ news[i].action = olds[i].action
                          /\ olds[i].action = "add" =>
                                 migratedFrom(olds[i].point, news[i].point)
                          /\ olds[i].action = "clear" =>
                                 allFrom(olds[i].points, news[i].points)
               stackOf(d, f) == IF f \in DOMAIN d THEN d[f] ELSE <<>>
           IN  \E d \in ValidDocs :
                   /\ allFrom(d.points, points')
                   /\ stackFrom(stackOf(d, "undoStack"), undoStack')
                   /\ stackFrom(stackOf(d, "redoStack"), redoStack')
      ]_vars

\* A charting document written before jersey and team tracking has been
\* loaded: its point and the first point of the Clear action on redoStack
\* have gained a null jerseyNumber and a null team, the second point of that
\* snapshot is as it was.
C20_Witness ==
    /\ lastOp.op = "loadThrew"
    /\ points = <<LOld @@ [jerseyNumber |-> <<"null">>, team |-> "null"]>>
    /\ undoStack # <<>>
    /\ undoStack[1].point = points[1]
    /\ redoStack # <<>>
    /\ redoStack[1].action = "clear"
    /\ redoStack[1].points = <<points[1], LNew>>

\* C21: migration is idempotent.  After every call of load, migrating what
\* the call left adds no field to any point of points or of either stack and
\* counts zero in points, in undoStack and in redoStack; when the file loaded
\* is one the application wrote (its points and stacks went through the
\* migration of an earlier load), the call itself counts zero everywhere and
\* leaves points and the stacks as the file has them; migrationInfo is null
\* throughout.
C21_MigrationIsIdempotent ==
    [][lastOp'.op \in {"loadThrew", "loaded"} =>
           LET out == [points |-> points', undoStack |-> undoStack',
                       redoStack |-> redoStack']
               zero == [jersey |-> 0, team |-> 0]
               again == migrationCounts(out)
               first == lastOp'.counts
           IN  /\ migratePoints(points') = points'
               /\ migrateStack(undoStack') = undoStack'
               /\ migrateStack(redoStack') = redoStack'
               /\ again.current = zero
               /\ again.undoResults = zero
               /\ again.redoResults = zero
               /\ again.pointsMigrated = 0 /\ again.teamMigrated = 0
               /\ migrationInfo' = <<>>
               /\ "savedAt" \in DOMAIN disk[1] =>
                      /\ first.current = zero
                      /\ first.undoResults = zero
                      /\ first.redoResults = zero
                      /\ points' = disk[1].points
                      /\ undoStack' = disk[1].undoStack
                      /\ redoStack' = disk[1].redoStack
      ]_vars

\* The application has loaded a file it wrote itself after loading a file of
\* an earlier version: the point still has the null jerseyNumber and team
\* the first load gave it, and this load counted nothing.
C21_Witness ==
    /\ lastOp.op = "loadThrew"
    /\ disk # <<>>
    /\ "savedAt" \in DOMAIN disk[1]
    /\ lastOp.counts.pointsMigrated = 0
    /\ lastOp.counts.teamMigrated = 0
    /\ points = <<LOld @@ [jerseyNumber |-> <<"null">>, team |-> "null"]>>
    /\ undoStack # <<>>
    /\ redoStack # <<>>

\* C22: a load shows a migration report if and only if it backfilled at
\* least one field, and the report's jersey figures are exact: current is the
\* number backfilled in points only, undo and redo the numbers backfilled in
\* the respective stacks, the total their sum; the team total is the sum over
\* the three collections.
C22_ReportIffBackfilled ==
    [][lastOp'.op \in {"loadThrew", "loaded"} =>
           LET c == lastOp'.counts
               jerseyTotal == c.current.jersey + c.undoResults.jersey
                              + c.redoResults.jersey
               teamTotal == c.current.team + c.undoResults.team
                            + c.redoResults.team
               report == lastOp'.shown
           IN  /\ (report # <<>>) <=> (jerseyTotal + teamTotal > 0)
               /\ report # <<>> =>
                      /\ report.jersey.total = jerseyTotal
                      /\ report.jersey.current = c.current.jersey
                      /\ report.jersey.undo = c.undoResults.jersey
                      /\ report.jersey.redo = c.redoResults.jersey
                      /\ report.team.total = teamTotal
      ]_vars

(***************************************************************************)
(* Properties of combining.                                                *)
(***************************************************************************)

\* C23: handleCombineFiles stores combined data only when at least two files
\* are selected, every selected file passes validation and every document's
\* mode is the selected combine mode; when a document's mode differs the
\* call reports, by name, the first selected file whose document differs;
\* and whenever a call ends without storing (too few files, a read or
\* validation error, a mode that differs, a declined confirmation)
\* combinedData is what it was.
C23_CombineStoresOnlyValid ==
    [][LET selected == combineFileList'
           valid(f) == f.size = "ok" /\ Resolves(f.result)
           differs(f) == valid(f) /\ f.result.data.mode # combineMode'
           offending == {i \in 1..Len(selected) : differs(selected[i])}
           ended == lastOp'.op \in {"combineTooFew", "combineRejected",
                                    "combineThrew", "combineMismatch",
                                    "combineDeclined", "combineStored"}
       IN  /\ (combinedData' # combinedData /\ combinedData' # <<>>) =>
                  /\ lastOp'.op = "combineStored"
                  /\ Len(selected) >= 2
                  /\ \A i \in 1..Len(selected) :
                         valid(selected[i]) /\ ~differs(selected[i])
           /\ (ended /\ Len(selected) >= 2
               /\ (\A i \in 1..Len(selected) : valid(selected[i]))
               /\ offending # {}) =>
                  /\ lastOp'.op = "combineMismatch"
                  /\ \E i \in offending :
                         /\ \A j \in offending : i <= j
                         /\ lastOp'.named = selected[i].name
           /\ (ended /\ lastOp'.op # "combineStored") =>
                  combinedData' = combinedData
      ]_vars

\* C24: when handleCombineFiles stores combined data, its points are the
\* points of the selected files' documents, one document after another in
\* file-list order (so its length is the sum of theirs, and duplicates stay),
\* and its undoStack and redoStack are empty; the document handleSaveCombined
\* then writes has those points and empty stacks.
C24_CombinedIsConcatenation ==
    [][/\ lastOp'.op = "combineStored" =>
              LET selected == combineFileList'
                  RECURSIVE concat(_)
                  concat(i) == IF i > Len(selected) THEN <<>>
                               ELSE selected[i].result.data.points \o concat(i + 1)
              IN  /\ combinedData'[1].points = concat(1)
                  /\ combinedData'[1].undoStack = <<>>
                  /\ combinedData'[1].redoStack = <<>>
       /\ lastOp'.op = "saveCombined" =>
              /\ lastOp'.saved.points = combinedData[1].points
              /\ lastOp'.saved.undoStack = <<>>
              /\ lastOp'.saved.redoStack = <<>>
      ]_vars

(***************************************************************************)
(* Session safety: the New Session button and the save-confirmation        *)
(* prompt (src/heatmap.js 2029-2043, 2207-2223).                           *)
(***************************************************************************)
\* newSessionBtn click (lines 2029-2043).  The button is in the main
\* container.
NewSessionButton ==
    /\ screen = "app"
    /\ screen' = IF isViewOnly THEN "sessionModal"
                 ELSE IF hasUnsavedChanges THEN "saveConfirmModal"
                 ELSE "sessionModal"
    /\ lastOp' = Op("newSessionRequest", TRUE, FALSE)
    /\ UNCHANGED <<configVars, restVars, sessionVars, drawVars, filterVars,
                   geometryMode, hasUnsavedChanges, pendingLoads, origin, run, everEvicted>>

\* confirmSaveYesBtn click (lines 2207-2215): saveSession, then the session
\* modal.
ConfirmSaveYes ==
    /\ screen = "saveConfirmModal"
    /\ disk' = <<export(Session)>>
    /\ hasUnsavedChanges' = FALSE
    /\ screen' = "sessionModal"
    /\ lastOp' = SaveOp("confirmSaveYes", export(Session))
    /\ since' = SinceAfter(Ledger, LoadedToView)
    /\ UNCHANGED <<configVars, migrationInfo, combineVars, sessionVars,
                   drawVars, filterVars, geometryMode, pendingLoads, origin,
                   run, everEvicted>>

\* confirmSaveNoBtn click (lines 2216-2223).
ConfirmSaveNo ==
    /\ screen = "saveConfirmModal"
    /\ screen' = "sessionModal"
    /\ lastOp' = Op("confirmSaveNo", TRUE, FALSE)
    /\ UNCHANGED <<configVars, restVars, sessionVars, drawVars, filterVars,
                   geometryMode, hasUnsavedChanges, pendingLoads, origin, run, everEvicted>>

SafetyRawNames == {<<"a">>}

\* What the reader hands to loadFromFile in this specification: a saved
\* simple-mode session with history, or text that is not JSON.
SafetyResults ==
    {[outcome |-> "text", json |-> "object",
      data |-> [name |-> DocName, mode |-> "simpleHeatmap", points |-> <<P1>>,
                undoStack |-> <<AddAction(P1)>>,
                redoStack |-> <<AddAction(P2)>>]],
     [outcome |-> "text", json |-> "invalid"]}

\* The ledger as it was at the last start, save or load is kept in since.
InitSafety ==
    /\ Shipped
    /\ disk = <<>>
    /\ since = <<[ledger |-> [points |-> <<>>, undoStack |-> <<>>,
                              redoStack |-> <<>>],
                  viewOnly |-> FALSE]>>

\* The session and load modals hide the main container and its buttons; the
\* keyboard listener is on the document.
NextSafety ==
    \/ \E n \in SafetyRawNames :
           screen = "sessionModal" /\ StartNewSession(n, "simpleHeatmap")
    \/ \E cx \in DrawXs, cy \in ClickYs :
           Len(points) < MaxDrawn /\ HandleCanvasClick(cx, cy)
    \/ screen = "app" /\ ClearHeatmap
    \/ screen = "app" /\ UndoButton
    \/ screen = "app" /\ RedoButton
    \/ KeyboardUndo
    \/ KeyboardRedo
    \/ SaveSession
    \/ NewSessionButton
    \/ ConfirmSaveYes
    \/ ConfirmSaveNo
    \/ \E v \in BOOLEAN : screen = "sessionModal" /\ LoadSession("ok", v)
    \/ \E v \in BOOLEAN, r \in SafetyResults, ok \in BOOLEAN :
           LoadSessionResume(v, r, ok)

SafetySpec == InitSafety /\ [][NextSafety]_vars

(***************************************************************************)
(* The specification of loaded history: session files whose points pass    *)
(* validatePoint and whose stacks hold what a file may hold, loaded into   *)
(* a fresh or a running session and then undone, redone, cleared and       *)
(* added to.                                                               *)
(***************************************************************************)
HistoryDocs ==
    {[name |-> DocName, mode |-> "simpleHeatmap", points |-> <<P1>>,
      undoStack |-> <<AddAction(P1)>>, redoStack |-> <<>>],
     [name |-> DocName, mode |-> "simpleHeatmap", points |-> <<>>,
      undoStack |-> <<>>, redoStack |-> <<AddAction(PBad)>>],
     [name |-> DocName, mode |-> "simpleHeatmap", points |-> <<>>,
      undoStack |-> <<ClearAction(<<PBad>>)>>, redoStack |-> <<>>]}

HistoryResults ==
    {[outcome |-> "text", json |-> "object", data |-> d] : d \in HistoryDocs}

HistoryRawNames == {<<"a">>}

InitHistory == Shipped /\ disk = <<>> /\ since = <<>>

NextHistory ==
    \/ \E n \in HistoryRawNames :
           screen = "sessionModal" /\ StartNewSession(n, "simpleHeatmap")
    \/ \E cx \in DrawXs, cy \in ClickYs :
           Len(points) < MaxDrawn /\ HandleCanvasClick(cx, cy)
    \/ screen = "app" /\ ClearHeatmap
    \/ KeyboardUndo
    \/ KeyboardRedo
    \/ screen = "sessionModal" /\ LoadSession("ok", FALSE)
    \/ \E r \in HistoryResults, ok \in BOOLEAN : LoadSessionResume(FALSE, r, ok)

HistorySpec == InitHistory /\ [][NextHistory]_vars

(***************************************************************************)
(* GridGeometry in meters (src/heatmap.js 298-327, 392-397) and the        *)
(* coordinate read-out of handleCanvasMouseMove (lines 2359-2390).         *)
(***************************************************************************)
innerSquareSize == 9

\* Lines 315-318.
innerOffset == (gridSize - innerSquareSize) \div 2

\* Lines 320-323.
verticalOffset(m) == IF m = "heatmapCharting" THEN 7 * scale ELSE 0

\* Lines 325-327.
innerStart == innerOffset * scale

DigitChars == <<"0", "1", "2", "3", "4", "5", "6", "7", "8", "9">>

\* The decimal digits of a natural number.
RECURSIVE Decimal(_)
Decimal(n) ==
    IF n < 10 THEN <<DigitChars[n + 1]>>
    ELSE Decimal(n \div 10) \o <<DigitChars[(n % 10) + 1]>>

\* Number.prototype.toFixed(2) of the number h / 100, h an integer: sign,
\* integer part, point, two digits.
toFixed2(h) ==
    LET a == IF h < 0 THEN 0 - h ELSE h
    IN  (IF h < 0 THEN <<"-">> ELSE <<>>)
        \o Decimal(a \div 100)
        \o <<".", DigitChars[((a \div 10) % 10) + 1], DigitChars[(a % 10) + 1]>>

\* Variant: the y coordinate without the 3 meter shift.
pixelsToMetersUnshifted(px, py) ==
    [x |-> toFixed2((px * 100) \div scale),
     y |-> toFixed2((py * 100) \div scale)]

\* Lines 392-397.  px / scale is a whole number of hundredths when px is
\* even, so toFixed(2) has nothing to round for the pixels of MousePixels.
pixelsToMeters(px, py) ==
    [x |-> toFixed2((px * 100) \div scale),
     y |-> toFixed2((py * 100) \div scale - 300)]

\* Mouse positions relative to the canvas, on either axis.
MousePixels == {0 - 2, 0, 2, 118, 120, 122, 300, 600, 602, 880}

\* History of a mouse move: where the mouse was and the text written to the
\* coordinates read-out, 'Position: (<x>m, <y>m)'.
MoveOp(x, y, meters) ==
    Op("move", TRUE, FALSE) @@ [at |-> [x |-> x, y |-> y], meters |-> meters]

\* handleCanvasMouseMove (lines 2359-2390).  The preview line goes to the
\* temporary canvas, which is not part of the state.
HandleCanvasMouseMove(x, y) ==
    /\ screen = "app"
    /\ lastOp' = IF isWithinBounds(geometryMode, x, y)
                 THEN MoveOp(x, y, pixelsToMeters(x, y))
                 ELSE Op("moveOutside", FALSE, FALSE)
    /\ UNCHANGED <<configVars, restVars, sessionVars, drawVars, filterVars,
                   appVars, origin, run, everEvicted>>

GeometryRawNames == {<<"a">>}

InitGeometry == Shipped /\ disk = <<>> /\ since = <<>>

NextGeometry ==
    \/ \E rawName \in GeometryRawNames, m \in validModes :
           StartNewSession(rawName, m)
    \/ \E x \in MousePixels, y \in MousePixels : HandleCanvasMouseMove(x, y)

GeometrySpec == InitGeometry /\ [][NextGeometry]_vars

(***************************************************************************)
(* Properties of the geometry.                                             *)
(***************************************************************************)

\* C25: after every completed controller operation (a new session, a load
\* attempt that succeeds or fails, a ledger or filter operation) the mode of
\* the geometry in use is the mode of the live session.
C25_GeometryFollowsSession ==
    geometryMode = mode

\* The number of hundredths a toFixed(2) text stands for.
RECURSIVE HundredthsOfDigits(_)
HundredthsOfDigits(t) ==
    IF t = <<>> THEN 0
    ELSE LET c == t[Len(t)]
             d == CHOOSE k \in 0..9 : DigitChars[k + 1] = c
         IN  10 * HundredthsOfDigits(SubSeq(t, 1, Len(t) - 1)) + d

HundredthsOf(t) ==
    LET negative == t # <<>> /\ t[1] = "-"
        digits == SelectSeq(t, LAMBDA c : c \notin {"-", "."})
    IN  IF negative THEN 0 - HundredthsOfDigits(digits)
        ELSE HundredthsOfDigits(digits)

\* C26: with canvasSize 600, gridSize 15 and innerSquareSize 9 the scale is
\* 40, the canvas height is 600 in simple mode and 880 (22 scale) in charting
\* mode, the inner square starts at 120, and in either mode the read-out of a
\* mouse position (px, py) is x = px / scale and y = py / scale - 3 with two
\* decimals: (120, 120) reads x = 3.00, y = 0.00.
C26_GeometryInMeters ==
    /\ canvasSize = 600 /\ gridSize = 15 /\ innerSquareSize = 9
    /\ scale = 40
    /\ canvasHeight("simpleHeatmap") = 600
    /\ canvasHeight("heatmapCharting") = 880
    /\ canvasHeight("heatmapCharting") = 22 * scale
    /\ innerStart = 120
    /\ lastOp.op = "move" =>
           LET px == lastOp.at.x
               py == lastOp.at.y
               meters == lastOp.meters
           IN  /\ Len(meters.x) >= 4 /\ meters.x[Len(meters.x) - 2] = "."
               /\ Len(meters.y) >= 4 /\ meters.y[Len(meters.y) - 2] = "."
               /\ HundredthsOf(meters.x) * scale = px * 100
               /\ (HundredthsOf(meters.y) + 300) * scale = py * 100
               /\ (px = 120 /\ py = 120) =>
                      /\ meters.x = <<"3", ".", "0", "0">>
                      /\ meters.y = <<"0", ".", "0", "0">>

\* The mouse is at (120, 120) of the charting canvas and the read-out says
\* x = 3.00, y = 0.00.
C26_Witness ==
    /\ geometryMode = "heatmapCharting"
    /\ lastOp.op = "move"
    /\ lastOp.at = [x |-> 120, y |-> 120]
    /\ lastOp.meters = [x |-> <<"3", ".", "0", "0">>,
                        y |-> <<"0", ".", "0", "0">>]

(***************************************************************************)
(* Properties of session safety.                                           *)
(***************************************************************************)

\* C27: while the live session is view-only (it was loaded with the View
\* Only option) no operator event changes points, undoStack or redoStack,
\* and the session stays view-only until a session is started or loaded.
C27_ViewOnlyLedgerIsFrozen ==
    [][(isViewOnly \/ LoadedToView) =>
           \/ lastOp'.op \in {"new", "loaded", "loadThrew"}
           \/ /\ Ledger' = Ledger
              /\ isViewOnly' \/ LoadedToView'
      ]_vars

\* C30: hasUnsavedChanges is true after every add, clear, undo or redo that
\* changed the ledger, and once true it stays true until the session is
\* saved, a new session is started or a session is loaded; and whenever the
\* ledger differs from what it was at the last save, start or load and the
\* session is not view-only, a click on New Session shows the
\* save-confirmation prompt, from which the session modal follows.
C30_UnsavedChangesAreGuarded ==
    [][/\ (lastOp'.op \in {"add", "clear", "undo", "redo"} /\ Ledger' # Ledger)
              => hasUnsavedChanges'
       /\ (hasUnsavedChanges /\ ~hasUnsavedChanges')
              => lastOp'.op \in {"save", "confirmSaveYes", "new", "loaded"}
       /\ (screen = "app" /\ lastOp'.op = "newSessionRequest"
           /\ Ledger # since[1].ledger /\ ~isViewOnly)
              => screen' = "saveConfirmModal"
       /\ (screen = "saveConfirmModal" /\ screen' # screen)
              => /\ screen' = "sessionModal"
                 /\ lastOp'.op \in {"confirmSaveYes", "confirmSaveNo"}
      ]_vars

\* New Session was clicked on a session that was saved and then changed by
\* an undo: the prompt is on screen.
C30_Witness ==
    /\ lastOp.op = "newSessionRequest"
    /\ screen = "saveConfirmModal"
    /\ hasUnsavedChanges
    /\ disk # <<>>
    /\ Ledger # since[1].ledger
    /\ Len(redoStack) > Len(since[1].ledger.redoStack)

(***************************************************************************)
(* Properties of the documents written.                                    *)
(***************************************************************************)
SavingOps == {"save", "confirmSaveYes", "saveCombined"}

\* C28: every document the application writes, by the save of the live
\* session and by the save of a combined heatmap, has a version equal to
\* the configured version, and has name, mode, points, undoStack, redoStack
\* and savedAt.
C28_SavedDocumentsCarryVersion ==
    [][lastOp'.op \in SavingOps =>
           /\ {"version", "name", "mode", "points", "undoStack", "redoStack",
               "savedAt"} \subseteq DOMAIN lastOp'.saved
           /\ lastOp'.saved.version = configVersion
      ]_vars

\* A name sanitizeSessionName would leave as it is.
IsSanitizedName(n) ==
    /\ n # <<>>
    /\ Len(n) <= nameMaxLength
    /\ \A i \in 1..Len(n) : n[i] \notin ControlChars \cup PathHostileChars

\* C29: the name of the live session, once there is one, and the name of
\* every document the application writes are non-empty, at most 50
\* characters long and free of control and path-hostile characters, whether
\* the name was typed for a new session, read from a loaded document or
\* typed for a combined heatmap.
C29_NamesAreSanitized ==
    /\ origin # "none" => IsSanitizedName(name)
    /\ lastOp.op \in SavingOps => IsSanitizedName(lastOp.saved.name)

(***************************************************************************)
(* Properties of the point-adding path.                                    *)
(***************************************************************************)

\* C31: every assertion on the point-adding path holds when it is
\* evaluated, whatever the tracking toggles: the point handed to addPoint is
\* an object with a numeric x, a numeric y and a numeric rotation, and its
\* coordinates are within the canvas (bounds included) after
\* sanitizeCoordinate.
C31_AddPathAssertionsHold ==
    [][lastOp'.op = "add" =>
           LET point == points'[Len(points')]
           IN  /\ isWithinBounds(geometryMode, point.x, point.y)
               /\ addPointAssertions(point)
      ]_vars

(***************************************************************************)
(* Properties of a session started new.                                    *)
(***************************************************************************)
\* The points a stack of actions leaves when replayed, oldest first, on no
\* points: an add appends its point, a clear empties.
RECURSIVE ReplayOf(_)
ReplayOf(stack) ==
    IF stack = <<>> THEN <<>>
    ELSE LET a == stack[Len(stack)]
             before == ReplayOf(SubSeq(stack, 1, Len(stack) - 1))
         IN  IF a.action = "add" THEN Append(before, a.point) ELSE <<>>

\* The ledger after undo() was called until it returned false.
RECURSIVE UndoneToTheEnd(_)
UndoneToTheEnd(s) ==
    LET u == undo(s) IN IF u.ret THEN UndoneToTheEnd(u.s) ELSE s

\* C32: in a session started new in which no entry has been evicted, points
\* is what replaying undoStack from oldest to newest on no points gives; so
\* when the top action is an add its point is the last of points, and
\* undoing until undo() returns false ends with no points.
C32_PointsAreReplayOfUndoStack ==
    (origin = "new" /\ ~everEvicted) =>
        /\ points = ReplayOf(undoStack)
        /\ (undoStack # <<>> /\ undoStack[Len(undoStack)].action = "add") =>
               /\ points # <<>>
               /\ points[Len(points)] = undoStack[Len(undoStack)].point
        /\ UndoneToTheEnd(Ledger).points = <<>>

\* A session started new, nothing evicted, with an add on top of a clear on
\* top of an add, and an entry to redo.
C32_Witness ==
    /\ origin = "new" /\ ~everEvicted
    /\ Len(undoStack) = 3
    /\ undoStack[1].action = "add"
    /\ undoStack[2].action = "clear"
    /\ undoStack[3].action = "add"
    /\ points = <<undoStack[3].point>>

(***************************************************************************)
(* Properties of a loaded session.                                         *)
(***************************************************************************)

\* C33: once a document that passes validateSessionData has been loaded,
\* every element of points passes validatePoint (an object with numeric x
\* and y and a rotation that is null or within 1..6), whatever undo, redo,
\* addPoint and clearAllPoints calls follow.
C33_LoadedPointsStayValid ==
    origin = "loaded" =>
        \A i \in 1..Len(points) : validatePoint(PointToJson(points[i]))

(***************************************************************************)
(* Properties of drawing.                                                  *)
(***************************************************************************)

\* C34: after startNewSession, and after a load, isDrawing is false and
\* lineStart is null; a mouseup adds a charted point only while a drag is
\* open, and the line of the point starts where the mousedown of that drag
\* was.
C34_DrawingStateEndsWithSession ==
    [][/\ lastOp'.op \in {"new", "loaded", "loadThrew"} =>
              ~isDrawing' /\ lineStart' = <<>>
       /\ (lastOp'.op = "add" /\ mode = "heatmapCharting") =>
              /\ isDrawing /\ lineStart # <<>>
              /\ ~isDrawing' /\ lineStart' = <<>>
              /\ LET point == points'[Len(points')]
                 IN  /\ point.line.startX = lineStart[1].x
                     /\ point.line.startY = lineStart[1].y
      ]_vars

(***************************************************************************)
(* Properties of combining while the file list is edited.                  *)
(***************************************************************************)

\* C35: whatever is done to the file list and the combine mode while the
\* reads of handleCombineFiles are pending, the call merges exactly the
\* files that were in the list when the operator clicked Combine, in that
\* order, checks them against the combine mode selected at that moment, and
\* a mode-mismatch message names a file of that list whose document differs.
C35_CombineUsesListAsConfirmed ==
    [][LET list == lastOp'.confirmed.list
           m == lastOp'.confirmed.mode
           RECURSIVE concat(_)
           concat(i) == IF i > Len(list) THEN <<>>
                        ELSE list[i].result.data.points \o concat(i + 1)
       IN  /\ lastOp'.op = "combineStored" =>
                  /\ lastOp'.loaded = [i \in 1..Len(list) |-> list[i].result.data]
                  /\ \A i \in 1..Len(list) : list[i].result.data.mode = m
                  /\ combinedData'[1].points = concat(1)
           /\ lastOp'.op = "combineMismatch" =>
                  \E i \in 1..Len(list) :
                      /\ list[i].name = lastOp'.named
                      /\ list[i].result.data.mode # m
           /\ lastOp'.op = "combineThrew" =>
                  \E i \in 1..Len(list) :
                      Resolves(list[i].result) => list[i].result.data.mode # m
      ]_vars

(***************************************************************************)
(* The specification of jersey numbers: a charting session of the shipped  *)
(* application in which the operator types jersey numbers of up to two     *)
(* digits, draws lines and uses the jersey number list.                    *)
(***************************************************************************)
LeadingZeroKeys == {"0", "7"}

InitJersey == Shipped /\ disk = <<>> /\ since = <<>>

NextJersey ==
    \/ screen = "sessionModal" /\ StartNewSession(<<"a">>, "heatmapCharting")
    \/ \E d \in LeadingZeroKeys : HandleKeyboardDigit(d, 2)
    \/ \E cx \in DrawXs, cy \in ClickYs : HandleCanvasMouseDown(cx, cy)
    \/ \E cx \in DrawXs, cy \in ClickYs :
           Len(points) < MaxDrawn /\ HandleCanvasMouseUp(cx, cy)
    \/ \E t \in JerseyButtons(points) : HandleJerseyNumberFilterClick(t)
    \/ HandleClearFilters("jersey")

JerseySpec == InitJersey /\ [][NextJersey]_vars

\* C36: every charted point has a button in the jersey number list (the "-"
\* button for a point without a jersey number) that, as the only jersey
\* filter with no rotation filter active, lets redrawAll draw the point.
C36_JerseyButtonShowsItsPoints ==
    \A i \in 1..Len(points) :
        HasLine(points[i]) =>
            \E t \in JerseyButtons(points) :
                /\ isDrawn(points[i], {t}, {})
                /\ pointJerseyNumber(points[i]) = <<"-">> => t = <<"-">>

\* The data-rotation values of the six buttons of updateRotationList.
RotationTokens == {"1", "2", "3", "4", "5", "6"}

\* C37: the rotation filter holds rotations 1..6 only, never the sentinel of
\* a point without a rotation; so while any rotation filter is active,
\* redrawAll draws no point without a rotation.
C37_RotationFiltersHoldRotationsOnly ==
    /\ activeRotationFilters \subseteq RotationTokens
    /\ "-" \notin activeRotationFilters
    /\ activeRotationFilters # {} =>
           \A i \in 1..Len(points) :
               rotVal(points[i]) = "-" =>
                   ~isDrawn(points[i], activeJerseyNumberFilters,
                            activeRotationFilters)

\* A point drawn with rotation tracking off, hidden by an active rotation
\* filter that a later click extended.
C37_Witness ==
    /\ Cardinality(activeRotationFilters) > 1
    /\ \E i \in 1..Len(points) :
           /\ rotVal(points[i]) = "-"
           /\ redrawAll(<<points[i]>>, {}, activeRotationFilters) = <<>>

(***************************************************************************)
(* The specification of the round trip: a session started new in either    *)
(* mode is edited (canvas input, jersey digits, tracking toggles, clear,   *)
(* undo, redo), saved once, and the saved file is loaded back.             *)
(***************************************************************************)
\* Points on the court at one time in this specification.
MaxCharted == 1

Editing == disk = <<>>

InitRoundTrip == Shipped /\ disk = <<>> /\ since = <<>>

NextRoundTrip ==
    \/ \E m \in validModes :
           screen = "sessionModal" /\ StartNewSession(<<"a">>, m)
    \/ \E cx \in DrawXs, cy \in ClickYs :
           Editing /\ Len(points) < MaxCharted /\ HandleCanvasClick(cx, cy)
    \/ \E cx \in DrawXs, cy \in ClickYs :
           Editing /\ HandleCanvasMouseDown(cx, cy)
    \/ \E cx \in DrawXs, cy \in ClickYs :
           Editing /\ Len(points) < MaxCharted /\ HandleCanvasMouseUp(cx, cy)
    \/ \E d \in JerseyKeys : Editing /\ HandleDigitKey(d)
    \/ Editing /\ ToggleTrackRotation
    \/ Editing /\ ToggleTrackTeam
    \/ \E t \in {"us", "opp"} : Editing /\ HandleTeamClick(t)
    \/ Editing /\ screen = "app" /\ ClearHeatmap
    \/ Editing /\ KeyboardUndo
    \/ Editing /\ KeyboardRedo
    \/ Editing /\ origin = "new" /\ SaveSession
    \/ ~Editing /\ origin = "new" /\ LoadSession("ok", FALSE)
    \/ ~Editing /\ LoadSessionResume(FALSE, DiskResult, TRUE)

RoundTripSpec == InitRoundTrip /\ [][NextRoundTrip]_vars

LedgerPoints ==
    {points[i] : i \in 1..Len(points)}
    \cup UNION {{visitedPoints(undoStack[i])[k] :
                     k \in 1..Len(visitedPoints(undoStack[i]))} :
                i \in 1..Len(undoStack)}
    \cup UNION {{visitedPoints(redoStack[i])[k] :
                     k \in 1..Len(visitedPoints(redoStack[i]))} :
                i \in 1..Len(redoStack)}

\* A jersey number field as the claim describes it: null, or one or two
\* digits.
IsJerseyField(j) ==
    \/ j = NullJersey
    \/ Len(j) \in 1..2 /\ \A i \in 1..Len(j) : j[i] \in Digits

\* The shape C39 gives a point of a session of mode m.
IsNewSessionPoint(p, m) ==
    /\ p.x \in 0..canvasWidth
    /\ p.y \in 0..canvasHeight(m)
    /\ p.rotation = "null"
       \/ RotationNumber(p.rotation) \in minRotation..maxRotation
    /\ HasLine(p) <=> m = "heatmapCharting"
    /\ HasLine(p) =>
           /\ "jerseyNumber" \in DOMAIN p /\ IsJerseyField(p.jerseyNumber)
           /\ "team" \in DOMAIN p /\ p.team \in {"us", "opp", "null"}

\* C39: in a session started new every point of the ledger has the shape
\* above for the session's mode, the point an input adds has no rotation
\* exactly when rotation tracking is off, and migrating the export of the
\* session counts nothing.
C39_NewSessionPointsAreWellFormed ==
    [][origin' = "new" =>
           /\ \A p \in LedgerPoints' : IsNewSessionPoint(p, mode')
           /\ lastOp'.op = "add" =>
                  (points'[Len(points')].rotation = "null" <=> ~trackRotation)
           /\ LET counts == migrationCounts(export(Session'))
                  zero == [jersey |-> 0, team |-> 0]
              IN  /\ counts.current = zero
                  /\ counts.undoResults = zero
                  /\ counts.redoResults = zero]_vars

\* A line charted with rotation and team tracking off and a jersey number
\* typed, cleared and brought back by undo: it is in points, in an Add
\* action of undoStack and in the snapshot of a Clear action of redoStack.
C39_Witness ==
    /\ origin = "new" /\ mode = "heatmapCharting"
    /\ lastOp.op = "undo"
    /\ points # <<>> /\ undoStack # <<>> /\ redoStack # <<>>
    /\ redoStack[1].action = "clear"
    /\ points[1].rotation = "null" /\ points[1].team = "null"
    /\ points[1].jerseyNumber # NullJersey

\* C40: in a session started new with auto-trim on and a bound M > 0, the
\* two stacks together never hold more than M actions; undo and redo keep
\* the sum of their lengths and evict nothing, so every eviction is made by
\* an add or a clear.
C40_StacksTogetherFitTheBound ==
    [][(origin' = "new" /\ TrimOn) =>
           /\ Len(undoStack') + Len(redoStack') <= maxUndoStackSize
           /\ (origin = "new" /\ lastOp'.op \in {"undo", "redo"}) =>
                  /\ Len(undoStack') + Len(redoStack')
                         = Len(undoStack) + Len(redoStack)
                  /\ ~lastOp'.evicted
                  /\ undo(Ledger).s.redoStack
                         = IF undoStack = <<>> THEN redoStack
                           ELSE Append(redoStack, Last(undoStack))
                  /\ redo(Ledger).s.undoStack
                         = IF redoStack = <<>> THEN undoStack
                           ELSE Append(undoStack, Last(redoStack))
           /\ lastOp'.evicted => lastOp'.op \in {"add", "clear"}]_vars

\* An undo in a session that has already lost its oldest action to the trim:
\* the stacks together hold exactly M actions.
C40_Witness ==
    /\ origin = "new" /\ TrimOn /\ everEvicted
    /\ lastOp.op = "undo" /\ lastOp.ret
    /\ undoStack # <<>> /\ redoStack # <<>>
    /\ Len(undoStack) + Len(redoStack) = maxUndoStackSize

=============================================================================
